---- MODULE Spec2Model ----
(***************************************************************************)
(* Name resolution of the rune compiler front end: the path tree           *)
(* (crates/rune/src/path_tree.rs), the item path builder                   *)
(* (crates/rune/src/items.rs) and the worker with its task queue           *)
(* (crates/rune/src/worker.rs).                                            *)
(*                                                                         *)
(* A PathTree is a handle (Rc<RefCell<Inner>>) to shared storage, and so   *)
(* is the path stack of an Items.  The model keeps a heap of Inner values  *)
(* (trees) and a heap of path stacks (paths); a handle is an index into    *)
(* the heap.  Node ids are 0-based as in the source: the node with id i    *)
(* is storage[i + 1].                                                      *)
(***************************************************************************)
EXTENDS Integers, Sequences, FiniteSets, TLC

(* ---------------------------- bounds ---------------------------------- *)

\* most nodes one tree holds, the package root included
MaxNodes == 3
\* most components of a qualified path handed to find / is_visible_to
MaxPathLen == 2
\* most tasks ever enqueued by one run of the worker
MaxTasks == 9
\* most guards alive at once: the nesting depth of the scopes being indexed
MaxDepth == 2
\* most errors the worker records
MaxErrors == 1
\* most aliases the imports add to an indexed file
MaxAliases == 1
\* most anonymous siblings (blocks, closures, macro calls) under one path entry
MaxAnon == 2

(* ---------------------------- values ---------------------------------- *)

\* Option::None of an Option<PathId> / Option<PathRef>
NoId == -1

\* usize::to_string for the sibling indices the model reaches
Digits == <<"0", "1", "2", "3", "4", "5", "6", "7", "8", "9">>

ToStr(n) == Digits[n + 1]

\* identifiers the sources under analysis use
Names == {"a", "b", "y"}

\* sec::Visibility
Visibility == {"Public", "Crate", "Super", "Private", "Inherit", "None"}

\* PathKind without a payload, and PathKind::Use(PathId)
Kind(tag) == [tag |-> tag, id |-> 0]

\* a Use whose target, when it is no placeholder, is an id not yet given out
Use_forward(id) == [tag |-> "Use", id |-> IF id = 0 THEN 0 ELSE id + 2 * MaxNodes + 2]

Use(id) == [tag |-> "Use", id |-> id]

\* PathKind::is_module
is_module(kind) == kind.tag \in {"Mod", "Crate"}

\* PathKind::is_struct_or_enum
is_struct_or_enum(kind) == kind.tag \in {"Struct", "Enum"}

\* runestick::Component
String(s) == [tag |-> "String", s |-> s, n |-> 0]

Anon(tag, n) == [tag |-> tag, s |-> "", n |-> n]

\* items::Node, From<Component>
Node(component) == [children |-> 0, component |-> component]

Last(s) == s[Len(s)]

Front(s) == SubSeq(s, 1, Len(s) - 1)

\* the sequences over S of length lo..hi
SeqsOf(S, lo, hi) == UNION {[1..n -> S] : n \in lo..hi}

(* ------------------------- QualifiedPath ------------------------------ *)

\* the longest common prefix of two sequences
RECURSIVE TakeWhileEq(_, _)
TakeWhileEq(p, q) ==
  IF p = <<>> \/ q = <<>> \/ Head(p) # Head(q) THEN <<>>
  ELSE <<Head(p)>> \o TakeWhileEq(Tail(p), Tail(q))

\* QualifiedPath::common_ancestor
common_ancestor(self, other) == TakeWhileEq(self, other)

\* QualifiedPath::is_ancestor_of: the slices are compared whole
is_ancestor_of(self, other) == (Len(self) < Len(other)) /\ (self = other)

\* the filter(|s| !s.is_empty()) of find and of QualifiedPath::into_iter
NonEmpty(s) == s # ""

\* From<&Item> for QualifiedPath
RECURSIVE ItemToQualifiedPath(_)
ItemToQualifiedPath(item) ==
  IF item = <<>> THEN <<>>
  ELSE LET c == Head(item)
       IN <<IF c.tag = "String" THEN c.s ELSE ToStr(c.n)>>
            \o ItemToQualifiedPath(Tail(item))

(* ----------------------------- PathTree ------------------------------- *)

\* struct PathPart
PathPart(id, vis, parent, name, kind) ==
  [id |-> id, vis |-> vis, parent |-> parent, name |-> name,
   kind |-> kind, children |-> <<>>]

\* Inner::empty
Inner_empty ==
  [storage |-> <<PathPart(0, "Public", NoId, "", Kind("Package"))>>,
   current |-> 0]

\* Inner::with_crate_name
Inner_with_crate_name(name) ==
  [storage |-> <<[PathPart(0, "Public", NoId, "", Kind("Package"))
                    EXCEPT !.children = <<1>>],
                 PathPart(1, "Crate", 0, name, Kind("Crate"))>>,
   current |-> 1]

\* deref!: the PathPart a PathRef points to
Part(t, idx) == t.storage[idx + 1]

\* PathTree::len
len(t) == Len(t.storage)

\* PathTree::get, as the test whether the index is in range
get(t, idx) == idx >= 0 /\ idx < len(t)

\* a push that gives the new node the id of the last node
push_reusing_id(t, parent_idx, name, kind, vis) ==
  [t EXCEPT !.storage = Append(@, PathPart(len(t) - 1, vis, parent_idx, name, kind))]

\* PathTree::push: the new node gets the next index; the parent's child
\* list is left alone
push(t, parent_idx, name, kind, vis) ==
  [t EXCEPT !.storage = Append(@, PathPart(len(t), vis, parent_idx, name, kind))]

\* an append_child that replaces the child list of self by the new child
append_child_replacing(t, idx, name, kind, vis) ==
  LET child == len(t)
      pushed == push(t, idx, name, kind, vis)
  IN [pushed EXCEPT !.storage[idx + 1].children = <<child>>]

\* an append_child that makes the new child the current node
append_child_entering(t, idx, name, kind, vis) ==
  LET child == len(t)
      pushed == push(t, idx, name, kind, vis)
  IN [pushed EXCEPT !.storage[idx + 1].children = Append(@, child),
                    !.current = child]

\* PathRef::append_child: push, then add the child to self's child list
append_child(t, idx, name, kind, vis) ==
  LET child == len(t)
      pushed == push(t, idx, name, kind, vis)
  IN [pushed EXCEPT !.storage[idx + 1].children = Append(@, child)]

\* PathRef::append_sibling: push under the parent of self (or under 0)
append_sibling(t, idx, name, kind) ==
  LET p == Part(t, idx).parent
      parent_idx == IF p = NoId THEN 0 ELSE p
  IN push(t, parent_idx, name, kind, "None")

\* PathTree::push_scoped: a child of current, which becomes current
push_scoped(t, name, kind, vis) ==
  [append_child(t, t.current, name, kind, vis) EXCEPT !.current = len(t)]

\* a pop that moves current to the package root
pop_to_root(t) ==
  LET idx == t.current
      parent_idx == Part(t, idx).parent
  IN IF parent_idx # NoId
     THEN [popped |-> idx, tree |-> [t EXCEPT !.current = 0]]
     ELSE [popped |-> NoId, tree |-> t]

\* PathTree::pop: [popped |-> index that was current or NoId, tree |-> t']
pop(t) ==
  LET idx == t.current
      parent_idx == Part(t, idx).parent
  IN IF parent_idx # NoId
     THEN [popped |-> idx, tree |-> [t EXCEPT !.current = parent_idx]]
     ELSE [popped |-> NoId, tree |-> t]

\* PathRef::parent: the parent if it is set and in range
parent(t, idx) ==
  LET p == Part(t, idx).parent
  IN IF p # NoId /\ get(t, p) THEN p ELSE NoId

\* a parent_mod that returns the parent, whatever its kind
parent_mod_direct(t, idx) == parent(t, idx)

\* PathRef::parent_mod: the first module among the strict ancestors
RECURSIVE parent_mod(_, _)
parent_mod(t, idx) ==
  LET p == parent(t, idx)
  IN IF p = NoId THEN NoId
     ELSE IF is_module(Part(t, p).kind) THEN p
     ELSE parent_mod(t, p)

\* a self_mod that starts the walk at the parent of self
self_mod_of_parent(t, idx) == parent_mod(t, idx)

\* PathRef::self_mod: the first module on the chain that starts at self
RECURSIVE self_mod(_, _)
self_mod(t, idx) ==
  IF idx = NoId THEN NoId
  ELSE IF is_module(Part(t, idx).kind) THEN idx
  ELSE self_mod(t, parent(t, idx))

\* PathRef::qualified_path: the names from the root down to self
RECURSIVE qualified_path(_, _)
qualified_path(t, idx) ==
  LET p == parent(t, idx)
  IN (IF p = NoId THEN <<>> ELSE qualified_path(t, p))
       \o <<Part(t, idx).name>>

\* a resolve that follows no alias
resolve_nothing(t, idx) == idx

\* PathRef::resolve: follow Use(id) until a non-alias or the placeholder 0
RECURSIVE resolve(_, _)
resolve(t, idx) ==
  LET kind == Part(t, idx).kind
  IN IF kind.tag = "Use" /\ kind.id # 0 THEN resolve(t, kind.id) ELSE idx

\* the first child of current named qualpart, or NoId
RECURSIVE FirstNamed(_, _, _)
FirstNamed(t, kids, qualpart) ==
  IF kids = <<>> THEN NoId
  ELSE IF Part(t, Head(kids)).name = qualpart THEN Head(kids)
  ELSE FirstNamed(t, Tail(kids), qualpart)

\* the 'depth loop of find.  q is what q_iter still holds; the result is
\* the value of last and what q_iter holds after the loop
RECURSIVE FindLoop(_, _, _, _)
FindLoop(t, q, current, last) ==
  IF q = <<>> THEN [last |-> last, rest |-> q]
  ELSE LET kids == Part(t, current).children
           hit == FirstNamed(t, kids, Head(q))
       IN IF hit # NoId THEN FindLoop(t, Tail(q), hit, hit)
          ELSE [last |-> IF kids = <<>> THEN last ELSE NoId,
                rest |-> Tail(q)]

\* Result<PathRef, PathTreeError>
Ok(idx) == [ok |-> TRUE, idx |-> idx, err |-> "", at |-> ""]

\* PathTreeError::UnresolvablePath; at is the component the message names
\* ("path resolution failed for {} at {}"), "" when it names none
\* ("could not find path: {}")
UnresolvablePath(at) ==
  [ok |-> FALSE, idx |-> NoId, err |-> "UnresolvablePath", at |-> at]

\* PathTree::find
find(t, qualpath) ==
  LET r == FindLoop(t, SelectSeq(qualpath, NonEmpty), 0, NoId)
  IN IF r.rest # <<>> THEN UnresolvablePath(Head(r.rest))
     ELSE IF r.last = NoId THEN UnresolvablePath("")
     ELSE Ok(r.last)

\* PathTree::self_type: storage.iter().rev().find(is_struct_or_enum), the id
\* of the part found
self_type(t) ==
  LET types == {i \in 0..(len(t) - 1) : is_struct_or_enum(Part(t, i).kind)}
  IN IF types = {} THEN UnresolvablePath("")
     ELSE Ok(Part(t, CHOOSE i \in types : \A j \in types : j <= i).id)

\* Result<bool, PathTreeError> of is_visible_to
OkBool(b) == [ok |-> TRUE, val |-> b, err |-> ""]

ErrBool(err) == [ok |-> FALSE, val |-> FALSE, err |-> err]

\* an is_visible_to that lets an inherited visibility through
is_visible_to_inherited(t, source, target) ==
  LET ft == find(t, target)
      fs == find(t, source)
  IN IF ~ft.ok THEN ErrBool(ft.err)
     ELSE IF ~fs.ok THEN ErrBool(fs.err)
     ELSE
       LET target_path == resolve(t, ft.idx)
           source_path == resolve(t, fs.idx)
           vis == Part(t, target_path).vis
       IN CASE vis = "None" -> OkBool(FALSE)
            [] vis = "Crate" -> OkBool(TRUE)
            [] vis = "Super" ->
                 LET super_ == parent_mod(t, target_path)
                 IN IF super_ = NoId THEN ErrBool("UnresolvablePath")
                    ELSE LET super_qualpath == qualified_path(t, super_)
                             ancestor_qualpath == common_ancestor(source, target)
                         IN OkBool((super_qualpath = ancestor_qualpath)
                                   \/ is_ancestor_of(super_qualpath, ancestor_qualpath))
            [] vis = "Public" -> OkBool(TRUE)
            [] vis = "Private" ->
                 LET target_self == self_mod(t, target_path)
                     source_self == self_mod(t, source_path)
                 IN OkBool(source_self # NoId /\ target_self # NoId
                           /\ source_self = target_self)
            [] vis = "Inherit" -> OkBool(TRUE)

\* PathTree::is_visible_to
is_visible_to(t, source, target) ==
  LET ft == find(t, target)
      fs == find(t, source)
  IN IF ~ft.ok THEN ErrBool(ft.err)
     ELSE IF ~fs.ok THEN ErrBool(fs.err)
     ELSE
       LET target_path == resolve(t, ft.idx)
           source_path == resolve(t, fs.idx)
           vis == Part(t, target_path).vis
       IN CASE vis = "None" -> OkBool(FALSE)
            [] vis = "Crate" -> OkBool(TRUE)
            [] vis = "Super" ->
                 LET super_ == parent_mod(t, target_path)
                 IN IF super_ = NoId THEN ErrBool("UnresolvablePath")
                    ELSE LET super_qualpath == qualified_path(t, super_)
                             ancestor_qualpath == common_ancestor(source, target)
                         IN OkBool((super_qualpath = ancestor_qualpath)
                                   \/ is_ancestor_of(super_qualpath, ancestor_qualpath))
            [] vis = "Public" -> OkBool(TRUE)
            [] vis = "Private" ->
                 LET target_self == self_mod(t, target_path)
                     source_self == self_mod(t, source_path)
                 IN OkBool(source_self # NoId /\ target_self # NoId
                           /\ source_self = target_self)
            [] vis = "Inherit" -> OkBool(FALSE)

(* --------------------------- symbol table ----------------------------- *)

\* p is a prefix of n (p = n included)
IsPrefix(p, n) == Len(p) <= Len(n) /\ SubSeq(n, 1, Len(p)) = p

\* UnitBuilder::contains_prefix / Context::contains_prefix over a set of
\* registered names
contains_prefix(ns, name) == \E n \in ns : IsPrefix(name, n)

\* UnitBuilder::iter_components / Context::iter_components: the components
\* that follow the prefix in some registered name
iter_components(ns, name) ==
  {n[Len(name) + 1] : n \in {m \in ns : IsPrefix(name, m) /\ Len(m) > Len(name)}}

\* the names the runestick Context registers; the compiled sources use none
ContextNames == {}

\* a new_import that registers nothing
new_import_dropping(imps, item, name) == imps

\* UnitBuilder::new_import: one entry for the importing item and the name
new_import(imps, item, name) == imps \cup {[item |-> item, name |-> name]}

\* the names the indexer has registered in the unit: the item of every
\* declaration it has pushed to a tree (the anonymous scopes and the aliases
\* of Import::process are not declarations)
Declared(t) ==
  {i \in 1..(len(t) - 1) :
     Part(t, i).kind.tag \notin {"Use", "Block", "Closure", "Macro"}}

UnitNames(ts) ==
  UNION {{SelectSeq(qualified_path(ts[h], i), NonEmpty) : i \in Declared(ts[h])}
           : h \in 1..Len(ts)}

\* the orders in which a set of at most MaxNodes components can be iterated
Orderings(S) ==
  {o \in SeqsOf(S, Cardinality(S), Cardinality(S)) :
     \A i, j \in 1..Len(o) : i # j => o[i] # o[j]}

(* ------------------------------ Items --------------------------------- *)

\* Items::new, the tree: one forgotten push_scoped per component of base
RECURSIVE Items_new_tree(_, _)
Items_new_tree(t, base) ==
  IF base = <<>> THEN t
  ELSE LET c == Head(base)
           pushed == IF c.tag = "String"
                     THEN push_scoped(t, c.s, Kind("Mod"), "Public")
                     ELSE push_scoped(t, ToStr(c.n), Kind("Block"), "None")
       IN Items_new_tree(pushed, Tail(base))

\* an Items::new that starts every builder with an empty path
Items_new_path_empty(base) == <<>>

\* Items::new, the path: one Node per component of base
Items_new_path(base) == [i \in 1..Len(base) |-> Node(base[i])]

\* Items::item: the components of the path
item(path) == [i \in 1..Len(path) |-> path[i].component]

\* an Items::pop that returns the last component and leaves it on the path
Items_pop_keeping(path) ==
  IF path = <<>>
  THEN [component |-> Anon("None", 0), path |-> path]
  ELSE [component |-> Last(path).component, path |-> path]

\* Items::pop: [component, path'], the last component taken off the path;
\* the tag None stands for the None of an empty path
Items_pop(path) ==
  IF path = <<>>
  THEN [component |-> Anon("None", 0), path |-> path]
  ELSE [component |-> Last(path).component, path |-> Front(path)]

\* a snapshot that shares the path stack and the tree with the Items it is
\* taken of
snapshot_sharing(ts, ps, it) == [trees |-> ts, paths |-> ps, it |-> it]

\* Items::snapshot with PathTree::cloned, on the heaps: a new path stack and a
\* new Inner that hold copies; it is the Items of the snapshot
snapshot(ts, ps, it) ==
  [trees |-> Append(ts, ts[it.tree]),
   paths |-> Append(ps, ps[it.path]),
   it |-> [path |-> Len(ps) + 1, tree |-> Len(ts) + 1]]

\* Items::next_child: [index, path'], the counter of the last node bumped
next_child(path) ==
  IF path # <<>>
  THEN [index |-> Last(path).children,
        path |-> [path EXCEPT ![Len(path)].children = @ + 1]]
  ELSE [index |-> 0, path |-> path]

\* Component tag -> PathKind of push_block / push_closure / push_async_block
AnonKind(tag) == IF tag = "Closure" THEN Kind("Closure") ELSE Kind("Block")

(* --------------------------- Import::process -------------------------- *)

\* a 'components loop that skips no component
RECURSIVE WildcardLoop_all(_, _, _, _, _, _)
WildcardLoop_all(acc, comps, qualified_path_, name, path_ref_id, vis) ==
  IF comps = <<>> THEN acc
  ELSE LET c == Head(comps)
           qualpath == Append(qualified_path_, c)
           f == find(acc.tree, qualpath)
           kind == IF f.ok THEN Use(Part(acc.tree, f.idx).id) ELSE Use(0)
       IN WildcardLoop_all(
            [tree |-> append_child(acc.tree, path_ref_id, Last(qualpath), kind, vis),
             new_names |-> Append(acc.new_names, Append(name, c))],
            Tail(comps), qualified_path_, name, path_ref_id, vis)

\* a 'components loop that skips a component the importer already holds a
\* child for
RECURSIVE WildcardLoop_new_only(_, _, _, _, _, _)
WildcardLoop_new_only(acc, comps, qualified_path_, name, path_ref_id, vis) ==
  IF comps = <<>> THEN acc
  ELSE LET c == Head(comps)
           qualpath == Append(qualified_path_, c)
           f == find(acc.tree, qualpath)
           fvis == IF f.ok THEN Part(acc.tree, f.idx).vis ELSE "Public"
           kind == IF f.ok THEN Use(Part(acc.tree, f.idx).id) ELSE Use(0)
           kids == Part(acc.tree, path_ref_id).children
       IN IF fvis = "Private"
             \/ \E i \in 1..Len(kids) : Part(acc.tree, kids[i]).name = c
          THEN WildcardLoop_new_only(acc, Tail(comps), qualified_path_, name,
                                     path_ref_id, vis)
          ELSE WildcardLoop_new_only(
                 [tree |-> append_child(acc.tree, path_ref_id, Last(qualpath), kind, vis),
                  new_names |-> Append(acc.new_names, Append(name, c))],
                 Tail(comps), qualified_path_, name, path_ref_id, vis)

\* the 'components loop of the wildcard branch over the components comps in
\* iteration order: acc holds the tree and new_names
RECURSIVE WildcardLoop(_, _, _, _, _, _)
WildcardLoop(acc, comps, qualified_path_, name, path_ref_id, vis) ==
  IF comps = <<>> THEN acc
  ELSE LET c == Head(comps)
           qualpath == Append(qualified_path_, c)
           f == find(acc.tree, qualpath)
           fvis == IF f.ok THEN Part(acc.tree, f.idx).vis ELSE "Public"
           kind == IF f.ok THEN Use(Part(acc.tree, f.idx).id) ELSE Use(0)
       IN IF fvis = "Private"
          THEN WildcardLoop(acc, Tail(comps), qualified_path_, name, path_ref_id, vis)
          ELSE WildcardLoop(
                 [tree |-> append_child(acc.tree, path_ref_id, Last(qualpath), kind, vis),
                  new_names |-> Append(acc.new_names, Append(name, c))],
                 Tail(comps), qualified_path_, name, path_ref_id, vis)

\* new_import for every element of new_names
RECURSIVE ImportAll(_, _, _)
ImportAll(imps, item_, new_names) ==
  IF new_names = <<>> THEN imps
  ELSE ImportAll(new_import(imps, item_, Head(new_names)), item_, Tail(new_names))

\* Import::process on the tree t of import.items; comps is the iteration
\* order of the components under the prefix.  The result holds the tree, the
\* import entries, the Result ("Ok" or the error kind) and whether an
\* expect / unwrap panicked
process(t, ns, imps, import, comps) ==
  LET name == SelectSeq(import.qualified_path, NonEmpty)
      stay(result, panic) ==
        [tree |-> t, imports |-> imps, result |-> result, panic |-> panic]
  IN IF ~get(t, import.path_ref_id) THEN stay("Ok", TRUE)
     ELSE IF import.last = "Wildcard"
     THEN IF ~contains_prefix(ContextNames, name) /\ ~contains_prefix(ns, name)
          THEN stay("MissingModule", FALSE)
          ELSE LET r == WildcardLoop([tree |-> t, new_names |-> <<>>], comps,
                                     import.qualified_path, name,
                                     import.path_ref_id, import.vis)
               IN [tree |-> r.tree,
                   imports |-> ImportAll(imps, import.item, r.new_names),
                   result |-> "Ok", panic |-> FALSE]
     ELSE IF import.qualified_path = <<>> THEN stay("Ok", TRUE)
     ELSE LET f == find(t, import.qualified_path)
              kind == IF f.ok THEN Use(Part(t, f.idx).id) ELSE Use(0)
          IN [tree |-> append_child(t, import.path_ref_id,
                                    Last(import.qualified_path), kind, import.vis),
              imports |-> new_import(imps, import.item, name),
              result |-> "Ok", panic |-> FALSE]

(* ------------------------------ state --------------------------------- *)

VARIABLES
  trees,      \* heap of Inner values: trees[h] is what the PathTree handle h shares
  paths,      \* heap of path stacks: paths[h] is the Vec<Node> the handle h shares
  guards,     \* the items::Guard values alive, in the order they were handed out
  panicked,   \* a panic (assert, expect, unwrap) has ended the program
  imports,    \* the import entries registered in the UnitBuilder
  errors,     \* Worker::errors
  queue,      \* Worker::queue
  enqueued,   \* the number of tasks pushed to the queue so far
  dispatched, \* the tasks run has popped so far, oldest first
  expanded,   \* Worker::expanded, the items with an expanded expression
  answer      \* the last query made of a tree or a path, with what it returned

vars == <<trees, paths, guards, panicked, imports, errors, queue,
          enqueued, dispatched, expanded, answer>>

workerVars == <<errors, queue, enqueued, dispatched, expanded>>

\* a query: the operation, its arguments and what it returned (val for a
\* bool, res for a Result, path for a QualifiedPath, idx for a PathRef); node
\* is the PathRef a method was called on
Answer(op, self, other, val, res, path, idx, node) ==
  [op |-> op, self |-> self, other |-> other, val |-> val, res |-> res,
   path |-> path, idx |-> idx, node |-> node]

\* no query was made yet
NoAnswer == Answer("", <<>>, <<>>, FALSE, OkBool(FALSE), <<>>, NoId, NoId)

\* the Items of the indexing context under analysis: the first handles
live == [path |-> 1, tree |-> 1]

\* the item paths a file is loaded with: the root file and the module a
Bases == {<<>>, <<String("a")>>}

\* the declarations an indexer pushes: name, PathKind, visibility
Decls ==
  {[name |-> "a", kind |-> "Mod", vis |-> "Public"],
   [name |-> "b", kind |-> "Mod", vis |-> "Private"],
   [name |-> "y", kind |-> "Fn", vis |-> "Private"]}

\* the qualified paths a use declaration names
UsePaths == {<<"a">>, <<"a", "y">>}

\* the visibility of a use declaration
UseVis == {"Public", "Private"}

\* items::Guard: the path handle, the tree handle of tree_guard (0 for
\* None), the index of tree_guard.path_ref, and the node that was current
\* when push_scoped ran (its local current_idx)
Guard(path, tree, idx, prev) ==
  [path |-> path, tree |-> tree, idx |-> idx, prev |-> prev]

RemoveAt(s, k) == SubSeq(s, 1, k - 1) \o SubSeq(s, k + 1, Len(s))

Init ==
  /\ \E base \in Bases :
       /\ trees = <<Items_new_tree(Inner_empty, base)>>
       /\ paths = <<Items_new_path(base)>>
  /\ guards = <<>>
  /\ panicked = FALSE
  /\ imports = {}
  /\ errors = <<>>
  /\ queue = <<>>
  /\ enqueued = 0
  /\ dispatched = <<>>
  /\ expanded = {}
  /\ answer = NoAnswer

(* ------------------------- the path builder --------------------------- *)

\* Items::push_named_kind (push_mod, push_fn, ...), and the indexer's
\* registration of the declared item
PushNamed(d) ==
  /\ ~panicked
  /\ Len(guards) < MaxDepth
  /\ len(trees[live.tree]) < MaxNodes
  /\ LET t == trees[live.tree]
         path == Append(paths[live.path], Node(String(d.name)))
     IN /\ paths' = [paths EXCEPT ![live.path] = path]
        /\ trees' = [trees EXCEPT ![live.tree] = push_scoped(t, d.name, Kind(d.kind), d.vis)]
        /\ guards' = Append(guards, Guard(live.path, live.tree, len(t), t.current))
  /\ UNCHANGED <<panicked, imports, workerVars, answer>>

\* Items::push_block, push_closure, push_async_block
PushAnon(tag) ==
  /\ ~panicked
  /\ Len(guards) < MaxDepth
  /\ len(trees[live.tree]) < MaxNodes
  /\ next_child(paths[live.path]).index < MaxAnon
  /\ LET t == trees[live.tree]
         nc == next_child(paths[live.path])
     IN /\ paths' = [paths EXCEPT ![live.path] = Append(nc.path, Node(Anon(tag, nc.index)))]
        /\ trees' = [trees EXCEPT ![live.tree] =
                       push_scoped(t, ToStr(nc.index), AnonKind(tag), "None")]
        /\ guards' = Append(guards, Guard(live.path, live.tree, len(t), t.current))
  /\ UNCHANGED <<panicked, imports, workerVars, answer>>

PushBlock == PushAnon("Block")

PushClosure == PushAnon("Closure")

PushAsyncBlock == PushAnon("AsyncBlock")

\* Items::push_macro: a path component and a guard without a tree guard
PushMacro ==
  /\ ~panicked
  /\ Len(guards) < MaxDepth
  /\ next_child(paths[live.path]).index < MaxAnon
  /\ LET nc == next_child(paths[live.path])
     IN /\ paths' = [paths EXCEPT ![live.path] = Append(nc.path, Node(Anon("Macro", nc.index)))]
        /\ guards' = Append(guards, Guard(live.path, 0, NoId, NoId))
  /\ UNCHANGED <<trees, panicked, imports, workerVars, answer>>

\* items::Guard::drop, then the drop of its field tree_guard
\* (path_tree::Guard::drop).  Any guard alive can be dropped.  The
\* debug_assert fires in a build with debug assertions only: fatal tells
\* which build this is
Release(k, fatal) ==
  /\ ~panicked
  /\ k \in 1..Len(guards)
  /\ LET g == guards[k]
         exists == paths[g.path] # <<>>
         popped == IF g.tree # 0 THEN pop(trees[g.tree])
                   ELSE [popped |-> NoId, tree |-> Inner_empty]
     IN /\ paths' = [paths EXCEPT ![g.path] = IF exists THEN Front(@) ELSE @]
        /\ trees' = IF g.tree # 0 THEN [trees EXCEPT ![g.tree] = popped.tree] ELSE trees
        /\ panicked' = (\/ (~exists /\ fatal)
                        \/ (g.tree # 0 /\ popped.popped # g.idx))
  /\ guards' = RemoveAt(guards, k)
  /\ UNCHANGED <<imports, workerVars, answer>>

\* PathRef::append_sibling on a PathRef of the live tree
AppendSibling(idx, d) ==
  /\ ~panicked
  /\ len(trees[live.tree]) < MaxNodes
  /\ get(trees[live.tree], idx)
  /\ trees' = [trees EXCEPT ![live.tree] = append_sibling(@, idx, d.name, Kind(d.kind))]
  /\ UNCHANGED <<paths, guards, panicked, imports, workerVars, answer>>

\* an Import task of the live indexing context
ImportOf(t, path_ref_id, qualified_path_, last, vis) ==
  [item |-> SelectSeq(qualified_path(t, path_ref_id), NonEmpty),
   qualified_path |-> qualified_path_, last |-> last, vis |-> vis,
   items |-> live, path_ref_id |-> path_ref_id]

\* Import::process for a use declaration of the live indexing context.  The
\* worker runs it between two handlers: the guards of the Index handler that
\* enqueued it are dropped by then.  limit bounds the nodes of the tree
ProcessImport(limit, path_ref_id, qualified_path_, last, vis) ==
  /\ ~panicked
  /\ guards = <<>>
  /\ get(trees[live.tree], path_ref_id)
  /\ LET t == trees[live.tree]
         import == ImportOf(t, path_ref_id, qualified_path_, last, vis)
         name == SelectSeq(qualified_path_, NonEmpty)
         names == UnitNames(trees)
         cs == iter_components(ContextNames, name) \cup iter_components(names, name)
     IN \E comps \in Orderings(cs) :
          LET r == process(t, names, imports, import, comps)
          IN /\ len(r.tree) <= limit
             /\ trees' = [trees EXCEPT ![live.tree] = r.tree]
             /\ imports' = r.imports
             /\ panicked' = r.panic
             /\ r.result # "Ok" => Len(errors) < MaxErrors
             /\ errors' = IF r.result = "Ok" THEN errors ELSE Append(errors, r.result)
  /\ UNCHANGED <<paths, guards, queue, enqueued, dispatched, expanded, answer>>

\* releases in reverse order of acquisition, as scopes that nest do
ReleaseTop == \E fatal \in BOOLEAN : Release(Len(guards), fatal)

\* releases in any order
ReleaseAny == \E k \in 1..Len(guards), fatal \in BOOLEAN : Release(k, fatal)

Import ==
  \E idx \in 0..(MaxNodes - 1), p \in UsePaths,
     last \in {"Wildcard", "PathSegment", "None"}, vis \in UseVis :
    ProcessImport(MaxNodes, idx, p, last, vis)

\* an indexing context that nests its scopes, and the imports it gives rise to
Next ==
  \/ \E d \in Decls : PushNamed(d)
  \/ PushBlock
  \/ ReleaseTop
  \/ Import

Spec == Init /\ [][Next]_vars

\* the same with PathRef::append_sibling
NextSibling ==
  \/ Next
  \/ \E idx \in 0..(MaxNodes - 1), d \in Decls : AppendSibling(idx, d)

SpecSibling == Init /\ [][NextSibling]_vars

\* the path builder with every kind of scope, its guards dropped in any order
NextGuards ==
  \/ \E d \in Decls : PushNamed(d)
  \/ PushBlock
  \/ PushClosure
  \/ PushAsyncBlock
  \/ PushMacro
  \/ ReleaseAny

SpecGuards == Init /\ [][NextGuards]_vars

\* Items::pop on the live path builder, whatever guards are alive
ItemsPop ==
  /\ ~panicked
  /\ paths[live.path] # <<>>
  /\ paths' = [paths EXCEPT ![live.path] = Items_pop(@).path]
  /\ UNCHANGED <<trees, guards, panicked, imports, workerVars, answer>>

\* the path builder with its guards dropped in any order and components
\* popped by hand
NextPop ==
  \/ \E d \in Decls : PushNamed(d)
  \/ PushBlock
  \/ PushMacro
  \/ ReleaseAny
  \/ ItemsPop

SpecPop == Init /\ [][NextPop]_vars

(* ----------------------------- scenarios ------------------------------ *)

\* the steps of an indexer over the declarations of a file: push a
\* declaration, leave its scope, meet a use declaration, a macro call or a
\* file module, or fail
Tok(op) ==
  [op |-> op, d |-> [name |-> "", kind |-> "", vis |-> ""], path |-> <<>>,
   last |-> "", vis |-> "", mkind |-> "", name |-> "", source_id |-> 0]

Open(name, kind, vis) ==
  [Tok("push") EXCEPT !.d = [name |-> name, kind |-> kind, vis |-> vis]]

Close == Tok("pop")

UseDecl(path, last, vis) ==
  [Tok("use") EXCEPT !.path = path, !.last = last, !.vis = vis]

MacroCall(mkind) == [Tok("macro") EXCEPT !.mkind = mkind]

FileMod(name, source_id) ==
  [Tok("mod") EXCEPT !.name = name, !.source_id = source_id]

Fail == Tok("err")

\* Items::push_named_kind or push_block and the in-order drop of the guard,
\* applied to a path stack and a tree for the declarations of a file
RECURSIVE Declare(_, _)
Declare(st, ast) ==
  IF ast = <<>> THEN st
  ELSE IF ~get(st.tree, st.tree.current)
  THEN st  \* storage[current] is out of range: deref! panics
  ELSE LET tok == Head(ast)
           nc == next_child(st.path)
       IN IF tok.op = "push"
          THEN Declare([path |-> Append(st.path, Node(String(tok.d.name))),
                        tree |-> push_scoped(st.tree, tok.d.name, Kind(tok.d.kind), tok.d.vis)],
                       Tail(ast))
          ELSE IF tok.op = "block"
          THEN Declare([path |-> Append(nc.path, Node(Anon("Block", nc.index))),
                        tree |-> push_scoped(st.tree, ToStr(nc.index), Kind("Block"), "None")],
                       Tail(ast))
          ELSE Declare([path |-> Front(st.path), tree |-> pop(st.tree).tree],
                       Tail(ast))

\* mod a { fn y } mod b { }: a private item and a sibling module
PrivateItemFile(va, vb) ==
  <<Open("a", "Mod", va), Open("y", "Fn", "Private"), Close, Close,
    Open("b", "Mod", vb), Close>>

\* mod a { mod b { pub(super) fn i } mod c { } } mod z { }
SuperItemFile(va, vb) ==
  <<Open("a", "Mod", va), Open("b", "Mod", vb), Open("i", "Fn", "Super"),
    Close, Close, Open("c", "Mod", "Private"), Close, Close,
    Open("z", "Mod", "Private"), Close>>

ModVis == {"Public", "Private"}

Scenarios ==
  {PrivateItemFile(va, vb) : va \in ModVis, vb \in ModVis}
    \cup {SuperItemFile(va, vb) : va \in ModVis, vb \in ModVis}

\* the root file of a compilation, indexed
InitScenario ==
  /\ \E ast \in Scenarios :
       LET st == Declare([path |-> <<>>, tree |-> Inner_empty], ast)
       IN /\ trees = <<st.tree>>
          /\ paths = <<st.path>>
  /\ guards = <<>>
  /\ panicked = FALSE
  /\ imports = {}
  /\ errors = <<>>
  /\ queue = <<>>
  /\ enqueued = 0
  /\ dispatched = <<>>
  /\ expanded = {}
  /\ answer = NoAnswer

\* the alias nodes of a tree
Aliases(t) == {i \in 1..(len(t) - 1) : Part(t, i).kind.tag = "Use"}

\* the imports of an indexed file, up to MaxAliases aliases
NextScenario ==
  \E idx \in 0..(len(trees[live.tree]) - 1), p \in UsePaths,
     last \in {"Wildcard", "PathSegment", "None"}, vis \in UseVis :
    ProcessImport(len(trees[live.tree]) - Cardinality(Aliases(trees[live.tree])) + MaxAliases,
                  idx, p, last, vis)

SpecScenario == InitScenario /\ [][NextScenario]_vars

(* ------------------------------ queries ------------------------------- *)

\* mod a { mod b { pub(super) fn i { }  fn j }  mod c { fn y  pub fn x }
\*         pub(crate) fn k  fn h (visibility inherited)  { } }
\* mod z { }  fn w
VisibilityFile ==
  <<Open("a", "Mod", "Public"),
      Open("b", "Mod", "Private"),
        Open("i", "Fn", "Super"), Tok("block"), Close, Close,
        Open("j", "Fn", "Private"), Close,
      Close,
      Open("c", "Mod", "Public"),
        Open("y", "Fn", "Private"), Close, Open("x", "Fn", "Public"), Close,
      Close,
      Open("k", "Fn", "Crate"), Close,
      Open("h", "Fn", "Inherit"), Tok("block"), Close, Close,
    Close,
    Open("z", "Mod", "Private"), Close,
    Open("w", "Fn", "Private"), Close>>

\* the use declarations of a file, processed one after the other once the
\* file is indexed: each is [path_ref_id, qualified_path, vis]
RECURSIVE Imported(_, _)
Imported(t, uses) ==
  IF uses = <<>> THEN t
  ELSE LET u == Head(uses)
           import == [item |-> SelectSeq(qualified_path(t, u.path_ref_id), NonEmpty),
                      qualified_path |-> u.qualified_path, last |-> "PathSegment",
                      vis |-> u.vis, items |-> live, path_ref_id |-> u.path_ref_id]
       IN Imported(process(t, UnitNames(<<t>>), {}, import, <<>>).tree, Tail(uses))

\* the node a qualified path names in a tree where find resolves it
IdOf(t, qualpath) == find(t, qualpath).idx

\* use a::c::x; use a::c::y; use a::b::i; in z, and use a::q; (a forward
\* reference to a name no declaration has) in a
VisibilityUses(t) ==
  <<[path_ref_id |-> IdOf(t, <<"z">>), qualified_path |-> <<"a", "c", "x">>, vis |-> "Private"],
    [path_ref_id |-> IdOf(t, <<"z">>), qualified_path |-> <<"a", "c", "y">>, vis |-> "Public"],
    [path_ref_id |-> IdOf(t, <<"z">>), qualified_path |-> <<"a", "b", "i">>, vis |-> "Public"],
    [path_ref_id |-> IdOf(t, <<"a">>), qualified_path |-> <<"a", "q">>, vis |-> "Public"]>>

\* struct s { fn m { } }  fn f { { } }
TypeFile ==
  <<Open("s", "Struct", "Public"), Open("m", "Fn", "Private"), Tok("block"),
    Close, Close, Close,
    Open("f", "Fn", "Private"), Tok("block"), Close, Close>>

\* the indexer has walked part of TypeFile: it is inside s, inside the block
\* of s::m, inside the block of f, or at the end of the file
TypeFilePrefixes == {SubSeq(TypeFile, 1, k) : k \in {1, 3, 8, 10}}

\* the files whose trees are queried
QueryFiles ==
  {VisibilityFile, SuperItemFile("Public", "Public"), PrivateItemFile("Public", "Private")}
    \cup TypeFilePrefixes

\* the trees queried: a file indexed, with or without its imports processed
InitQuery ==
  /\ \E ast \in QueryFiles, withUses \in BOOLEAN :
       LET st == Declare([path |-> <<>>, tree |-> Inner_empty], ast)
       IN /\ trees = <<IF withUses /\ ast = VisibilityFile
                       THEN Imported(st.tree, VisibilityUses(st.tree))
                       ELSE st.tree>>
          /\ paths = <<st.path>>
  /\ guards = <<>>
  /\ panicked = FALSE
  /\ imports = {}
  /\ errors = <<>>
  /\ queue = <<>>
  /\ enqueued = 0
  /\ dispatched = <<>>
  /\ expanded = {}
  /\ answer = NoAnswer

\* the qualified paths given to QualifiedPath::is_ancestor_of and
\* common_ancestor
PathArgs == SeqsOf({"", "a", "b"}, 0, MaxPathLen)

\* the qualified paths given to find and is_visible_to: the path of every
\* node, as qualified_path gives it and without the name of the root, and a
\* path no node has
TreeArgs(t) ==
  {qualified_path(t, n) : n \in 0..(len(t) - 1)}
    \cup {SelectSeq(qualified_path(t, n), NonEmpty) : n \in 1..(len(t) - 1)}
    \cup {<<"a", "nil">>}

\* The queries read the tree and leave it alone, so what one returns does
\* not depend on the queries before it: a behaviour makes one query.

\* QualifiedPath::is_ancestor_of
QueryIsAncestorOf ==
  /\ answer = NoAnswer
  /\ \E p, q \in PathArgs :
       answer' = [NoAnswer EXCEPT !.op = "is_ancestor_of", !.self = p, !.other = q,
                                  !.val = is_ancestor_of(p, q)]
  /\ UNCHANGED <<trees, paths, guards, panicked, imports, workerVars>>

\* QualifiedPath::common_ancestor
QueryCommonAncestor ==
  /\ answer = NoAnswer
  /\ \E p, q \in PathArgs :
       answer' = [NoAnswer EXCEPT !.op = "common_ancestor", !.self = p, !.other = q,
                                  !.path = common_ancestor(p, q)]
  /\ UNCHANGED <<trees, paths, guards, panicked, imports, workerVars>>

\* PathTree::find
QueryFind ==
  /\ answer = NoAnswer
  /\ \E p \in TreeArgs(trees[live.tree]) :
       answer' = [NoAnswer EXCEPT !.op = "find", !.self = p,
                                  !.res = find(trees[live.tree], p)]
  /\ UNCHANGED <<trees, paths, guards, panicked, imports, workerVars>>

\* PathTree::find followed by PathRef::resolve
QueryResolve ==
  /\ answer = NoAnswer
  /\ \E p \in TreeArgs(trees[live.tree]) :
       /\ find(trees[live.tree], p).ok
       /\ answer' = [NoAnswer EXCEPT !.op = "resolve", !.self = p,
                                     !.idx = resolve(trees[live.tree],
                                                     find(trees[live.tree], p).idx)]
  /\ UNCHANGED <<trees, paths, guards, panicked, imports, workerVars>>

\* PathTree::self_type
QuerySelfType ==
  /\ answer = NoAnswer
  /\ answer' = [NoAnswer EXCEPT !.op = "self_type", !.res = self_type(trees[live.tree])]
  /\ UNCHANGED <<trees, paths, guards, panicked, imports, workerVars>>

\* PathRef::self_mod on a node of the tree
QuerySelfMod ==
  /\ answer = NoAnswer
  /\ \E n \in 0..(len(trees[live.tree]) - 1) :
       answer' = [NoAnswer EXCEPT !.op = "self_mod", !.node = n,
                                  !.idx = self_mod(trees[live.tree], n)]
  /\ UNCHANGED <<trees, paths, guards, panicked, imports, workerVars>>

\* PathRef::parent_mod on a node of the tree
QueryParentMod ==
  /\ answer = NoAnswer
  /\ \E n \in 0..(len(trees[live.tree]) - 1) :
       answer' = [NoAnswer EXCEPT !.op = "parent_mod", !.node = n,
                                  !.idx = parent_mod(trees[live.tree], n)]
  /\ UNCHANGED <<trees, paths, guards, panicked, imports, workerVars>>

\* PathTree::is_visible_to
QueryIsVisibleTo ==
  /\ answer = NoAnswer
  /\ \E source, target \in TreeArgs(trees[live.tree]) :
       answer' = [NoAnswer EXCEPT !.op = "is_visible_to", !.self = source,
                                  !.other = target,
                                  !.res = is_visible_to(trees[live.tree], source, target)]
  /\ UNCHANGED <<trees, paths, guards, panicked, imports, workerVars>>

NextQuery ==
  \/ QueryIsAncestorOf
  \/ QueryCommonAncestor
  \/ QueryFind
  \/ QueryResolve
  \/ QuerySelfType
  \/ QuerySelfMod
  \/ QueryParentMod
  \/ QueryIsVisibleTo

SpecQuery == InitQuery /\ [][NextQuery]_vars

(* ------------------------------- worker ------------------------------- *)

\* worker::Task; seq numbers the tasks in the order they were enqueued.  For a
\* task that works on a snapshot, from is the Items the snapshot was taken of
\* and snap the path and the tree it held when it was taken; depth counts the
\* macro expansions that led to the task
Task(kind) ==
  [kind |-> kind, seq |-> 0, item |-> <<>>, source_id |-> 0,
   items |-> [path |-> 0, tree |-> 0], ast |-> <<>>, akind |-> "",
   qualified_path |-> <<>>, last |-> "", vis |-> "", path_ref_id |-> 0,
   mkind |-> "", from |-> [path |-> 0, tree |-> 0],
   snap |-> [path |-> <<>>, tree |-> Inner_empty], depth |-> 0]

LoadFileTask(item_, source_id) ==
  [Task("LoadFile") EXCEPT !.item = item_, !.source_id = source_id]

\* an Index task that takes every ast for a file
IndexTask_of_file(item_, items, source_id, akind, ast) ==
  [Task("Index") EXCEPT !.item = item_, !.items = items, !.source_id = source_id,
                        !.akind = "File", !.ast = ast]

IndexTask(item_, items, source_id, akind, ast) ==
  [Task("Index") EXCEPT !.item = item_, !.items = items, !.source_id = source_id,
                        !.akind = akind, !.ast = ast]

ImportTask(item_, items, qualified_path_, last, vis, path_ref_id) ==
  [Task("Import") EXCEPT !.item = item_, !.items = items,
                         !.qualified_path = qualified_path_, !.last = last,
                         !.vis = vis, !.path_ref_id = path_ref_id]

MacroTask(mkind, items, from, snap) ==
  [Task("ExpandMacro") EXCEPT !.mkind = mkind, !.items = items, !.from = from,
                              !.snap = snap]

\* a pop that takes the front task and drops the tasks behind it
pop_front_clearing(q) == [task |-> Head(q), queue |-> <<>>]

\* a pop that takes the front task and drops the task behind it
pop_front_skipping(q) ==
  [task |-> Head(q), queue |-> IF Len(q) > 1 THEN Tail(Tail(q)) ELSE <<>>]

\* VecDeque::pop_front on a queue that is not empty
pop_front(q) == [task |-> Head(q), queue |-> Tail(q)]

\* a push to the front of the queue
push_front(q, task) == <<task>> \o q

\* VecDeque::push_back
push_back(q, task) == Append(q, task)

\* push_back for the tasks of out in order, numbered from n + 1
RECURSIVE PushAll(_, _, _)
PushAll(q, n, out) ==
  IF out = <<>> THEN q
  ELSE PushAll(push_back(q, [Head(out) EXCEPT !.seq = n + 1]), n + 1, Tail(out))

\* Sources: the source ids that exist, whether the text parses, and its file
\* 1: mod a { fn y } mod b { use a::y; } m!(); mod c;
\* 2: the file of module c: use a::*; fn y with a block and an expression macro
\* 3: a text that does not parse
Sources ==
  <<[parses |-> TRUE,
     ast |-> <<Open("a", "Mod", "Public"), Open("y", "Fn", "Private"), Close, Close,
               Open("b", "Mod", "Private"),
               UseDecl(<<"a", "y">>, "PathSegment", "Private"), Close,
               MacroCall("Item"), FileMod("c", 2)>>],
    [parses |-> TRUE,
     ast |-> <<UseDecl(<<"a">>, "Wildcard", "Public"),
               Open("y", "Fn", "Public"), Tok("block"), MacroCall("Expr"),
               Close, Close>>],
    [parses |-> FALSE, ast |-> <<>>]>>

\* the source ids of the initial queue; 0 is an id Sources does not hold
InitialSourceIds == {0, 1, 2, 3}

\* MacroCompiler::eval_macro: an error or the expansion
MacroResults ==
  {[ok |-> FALSE, ast |-> <<>>],
   [ok |-> TRUE, ast |-> <<Open("y", "Fn", "Public"), Close>>],
   [ok |-> TRUE, ast |-> <<MacroCall("Item")>>],
   [ok |-> TRUE, ast |-> <<Fail>>]}

\* the guards alive are dropped as an error leaves the indexer
RECURSIVE Unwind(_)
Unwind(acc) ==
  IF acc.open = 0 THEN acc
  ELSE Unwind([acc EXCEPT !.paths[acc.it.path] = Front(@),
                          !.trees[acc.it.tree] = pop(@).tree,
                          !.open = @ - 1])

\* Indexer::index over the steps of ast.  acc holds the heaps, the Items of
\* the task (it), the tasks pushed to the queue (out), the number of guards
\* alive (open) and whether indexing failed
RECURSIVE IndexWalk(_, _)
IndexWalk(acc, ast) ==
  IF ast = <<>> THEN acc
  ELSE
    LET tok == Head(ast)
        path == acc.paths[acc.it.path]
        t == acc.trees[acc.it.tree]
        nc == next_child(path)
    IN CASE tok.op = "push" ->
              IndexWalk([acc EXCEPT
                           !.paths[acc.it.path] = Append(@, Node(String(tok.d.name))),
                           !.trees[acc.it.tree] =
                              push_scoped(@, tok.d.name, Kind(tok.d.kind), tok.d.vis),
                           !.open = @ + 1],
                        Tail(ast))
         [] tok.op = "block" ->
              IndexWalk([acc EXCEPT
                           !.paths[acc.it.path] = Append(nc.path, Node(Anon("Block", nc.index))),
                           !.trees[acc.it.tree] =
                              push_scoped(@, ToStr(nc.index), Kind("Block"), "None"),
                           !.open = @ + 1],
                        Tail(ast))
         [] tok.op = "pop" ->
              IndexWalk([acc EXCEPT
                           !.paths[acc.it.path] = Front(@),
                           !.trees[acc.it.tree] = pop(@).tree,
                           !.open = @ - 1],
                        Tail(ast))
         [] tok.op = "use" ->
              IndexWalk([acc EXCEPT
                           !.out = Append(@, ImportTask(item(path), acc.it, tok.path,
                                                        tok.last, tok.vis, t.current))],
                        Tail(ast))
         [] tok.op = "macro" ->
              \* push_macro, Items::snapshot for the task, drop of the guard
              LET pushed == Append(nc.path, Node(Anon("Macro", nc.index)))
                  s == snapshot(acc.trees, [acc.paths EXCEPT ![acc.it.path] = pushed],
                                acc.it)
              IN IndexWalk([acc EXCEPT
                              !.paths = [s.paths EXCEPT ![acc.it.path] = Front(@)],
                              !.trees = s.trees,
                              !.out = Append(@, MacroTask(tok.mkind, s.it, acc.it,
                                                          [path |-> pushed, tree |-> t]))],
                           Tail(ast))
         [] tok.op = "mod" ->
              IndexWalk([acc EXCEPT
                           !.out = Append(@, LoadFileTask(Append(item(path), String(tok.name)),
                                                          tok.source_id))],
                        Tail(ast))
         [] tok.op = "err" -> [Unwind(acc) EXCEPT !.failed = TRUE]

\* the worker starts with one LoadFile task of the root item per source
InitWorker ==
  /\ trees = <<>>
  /\ paths = <<>>
  /\ guards = <<>>
  /\ panicked = FALSE
  /\ imports = {}
  /\ errors = <<>>
  /\ \E ids \in SeqsOf(InitialSourceIds, 1, 2) :
       /\ queue = PushAll(<<>>, 0, [i \in 1..Len(ids) |-> LoadFileTask(<<>>, ids[i])])
       /\ enqueued = Len(ids)
  /\ dispatched = <<>>
  /\ expanded = {}
  /\ answer = NoAnswer

\* Worker::run, Task::LoadFile
RunLoadFile ==
  /\ ~panicked
  /\ queue # <<>>
  /\ Head(queue).kind = "LoadFile"
  /\ LET f == pop_front(queue)
         task == f.task
     IN /\ dispatched' = Append(dispatched, task.seq)
        /\ IF task.source_id \notin DOMAIN Sources
           THEN /\ errors' = Append(errors, "Internal")
                /\ queue' = f.queue
                /\ UNCHANGED <<trees, paths, enqueued>>
           ELSE IF ~Sources[task.source_id].parses
           THEN /\ errors' = Append(errors, "Parse")
                /\ queue' = f.queue
                /\ UNCHANGED <<trees, paths, enqueued>>
           ELSE /\ enqueued < MaxTasks
                /\ trees' = Append(trees, Items_new_tree(Inner_empty, task.item))
                /\ paths' = Append(paths, Items_new_path(task.item))
                /\ queue' = PushAll(f.queue, enqueued,
                                    <<[IndexTask(task.item,
                                                 [path |-> Len(paths) + 1, tree |-> Len(trees) + 1],
                                                 task.source_id, "File",
                                                 Sources[task.source_id].ast)
                                         EXCEPT !.depth = task.depth]>>)
                /\ enqueued' = enqueued + 1
                /\ UNCHANGED errors
  /\ UNCHANGED <<guards, panicked, imports, expanded, answer>>

\* Worker::run, Task::Index
RunIndex ==
  /\ ~panicked
  /\ queue # <<>>
  /\ Head(queue).kind = "Index"
  /\ LET f == pop_front(queue)
         task == f.task
         r == IndexWalk([trees |-> trees, paths |-> paths, it |-> task.items,
                         out |-> <<>>, open |-> 0, failed |-> FALSE], task.ast)
     IN /\ enqueued + Len(r.out) <= MaxTasks
        /\ dispatched' = Append(dispatched, task.seq)
        /\ trees' = r.trees
        /\ paths' = r.paths
        /\ queue' = PushAll(f.queue, enqueued,
                            [i \in 1..Len(r.out) |-> [r.out[i] EXCEPT !.depth = task.depth]])
        /\ enqueued' = enqueued + Len(r.out)
        /\ errors' = IF r.failed THEN Append(errors, "Index") ELSE errors
        /\ expanded' = IF ~r.failed /\ task.akind = "Expr"
                       THEN expanded \cup {task.item} ELSE expanded
  /\ UNCHANGED <<guards, panicked, imports, answer>>

\* Worker::run, Task::Import
RunImport ==
  /\ ~panicked
  /\ queue # <<>>
  /\ Head(queue).kind = "Import"
  /\ LET f == pop_front(queue)
         task == f.task
         name == SelectSeq(task.qualified_path, NonEmpty)
         names == UnitNames(trees)
         cs == iter_components(ContextNames, name) \cup iter_components(names, name)
     IN \E comps \in Orderings(cs) :
          LET r == process(trees[task.items.tree], names, imports, task, comps)
          IN /\ dispatched' = Append(dispatched, task.seq)
             /\ queue' = f.queue
             /\ trees' = [trees EXCEPT ![task.items.tree] = r.tree]
             /\ imports' = r.imports
             /\ panicked' = r.panic
             /\ errors' = IF r.result = "Ok" THEN errors ELSE Append(errors, r.result)
  /\ UNCHANGED <<paths, guards, enqueued, expanded, answer>>

\* Worker::run, Task::ExpandMacro
RunExpandMacro ==
  /\ ~panicked
  /\ queue # <<>>
  /\ Head(queue).kind = "ExpandMacro"
  /\ LET f == pop_front(queue)
         task == f.task
         path == paths[task.items.path]
         item_ == item(path)
         \* Items::pop for an item macro
         popsMacro == task.mkind = "Item"
         popped == Items_pop(path)
         isMacro == popped.component.tag = "Macro"
         akind == IF task.mkind = "Item" THEN "Item" ELSE "Expr"
     IN /\ dispatched' = Append(dispatched, task.seq)
        /\ paths' = IF popsMacro
                    THEN [paths EXCEPT ![task.items.path] = popped.path] ELSE paths
        /\ IF popsMacro /\ ~isMacro
           THEN /\ errors' = Append(errors, "Internal")
                /\ queue' = f.queue
                /\ UNCHANGED enqueued
           ELSE \E res \in MacroResults :
                  IF ~res.ok
                  THEN /\ errors' = Append(errors, "Macro")
                       /\ queue' = f.queue
                       /\ UNCHANGED enqueued
                  ELSE /\ enqueued < MaxTasks
                       /\ queue' = PushAll(f.queue, enqueued,
                                           <<[IndexTask(item_, task.items, task.source_id,
                                                        akind, res.ast)
                                                EXCEPT !.from = task.from,
                                                       !.snap = task.snap,
                                                       !.depth = task.depth + 1]>>)
                       /\ enqueued' = enqueued + 1
                       /\ UNCHANGED errors
  /\ UNCHANGED <<trees, guards, panicked, imports, expanded, answer>>

\* Worker::run: the task at the front of the queue is dispatched by its kind
NextWorker ==
  \/ RunLoadFile
  \/ RunIndex
  \/ RunImport
  \/ RunExpandMacro

SpecWorker == InitWorker /\ [][NextWorker]_vars

\* RunIndex can take a step: the guard of RunIndex
IndexEnabled ==
  /\ ~panicked
  /\ queue # <<>>
  /\ Head(queue).kind = "Index"
  /\ enqueued + Len(IndexWalk([trees |-> trees, paths |-> paths,
                               it |-> Head(queue).items, out |-> <<>>,
                               open |-> 0, failed |-> FALSE],
                              Head(queue).ast).out) <= MaxTasks

\* run is a loop that takes the next task as long as the queue holds one:
\* weak fairness of every arm of the match, that of RunIndex written with
\* its guard
SpecWorkerFair ==
  /\ SpecWorker
  /\ WF_vars(RunLoadFile)
  /\ WF_vars(RunImport)
  /\ WF_vars(RunExpandMacro)
  /\ ([]<>(~IndexEnabled) \/ []<><<RunIndex>>_vars)

(* --------------------------- import scenarios -------------------------- *)

\* mod a { pub fn x } mod b { }
PublicItemFile ==
  <<Open("a", "Mod", "Public"), Open("x", "Fn", "Public"), Close, Close,
    Open("b", "Mod", "Private"), Close>>

\* mod a { mod b { pub fn x  fn y } } mod z { }
WildcardFile ==
  <<Open("a", "Mod", "Public"), Open("b", "Mod", "Public"),
    Open("x", "Fn", "Public"), Close, Open("y", "Fn", "Private"), Close,
    Close, Close, Open("z", "Mod", "Private"), Close>>

\* the files with use declarations
ImportFiles == {PublicItemFile, WildcardFile}

\* the use declarations a file may hold: the module that holds it, the path
\* and whether the path ends in a wildcard
UsesOf(ast) ==
  IF ast = PublicItemFile
  THEN {[from |-> <<"b">>, path |-> <<"a", "x">>, last |-> "PathSegment"],
        [from |-> <<"b">>, path |-> <<"a">>, last |-> "None"],
        [from |-> <<"b">>, path |-> <<"a">>, last |-> "Wildcard"],
        [from |-> <<"b">>, path |-> <<"q">>, last |-> "Wildcard"],
        [from |-> <<"b">>, path |-> <<"q", "r">>, last |-> "PathSegment"],
        [from |-> <<"a">>, path |-> <<"q">>, last |-> "None"]}
  ELSE {[from |-> <<"z">>, path |-> <<"a", "b">>, last |-> "Wildcard"],
        [from |-> <<"z">>, path |-> <<"a", "b", "x">>, last |-> "PathSegment"],
        [from |-> <<"a">>, path |-> <<"a", "b">>, last |-> "Wildcard"],
        [from |-> <<"z">>, path |-> <<"q", "r">>, last |-> "Wildcard"],
        [from |-> <<"z">>, path |-> <<"q", "r">>, last |-> "PathSegment"]}

\* the Import task the indexer pushes for a use declaration it meets in the
\* module from: the item and the id of the node current there
ImportTaskOf(t, u, vis) ==
  ImportTask([i \in 1..Len(u.from) |-> String(u.from[i])], live, u.path, u.last, vis,
             IdOf(t, u.from))

\* a file indexed, the Import tasks of one or two of its use declarations in
\* the queue
InitImport ==
  /\ \E ast \in ImportFiles :
       LET st == Declare([path |-> <<>>, tree |-> Inner_empty], ast)
       IN /\ trees = <<st.tree>>
          /\ paths = <<st.path>>
          /\ \E us \in SeqsOf(UsesOf(ast), 1, 2), vis \in UseVis :
               /\ queue = PushAll(<<>>, 0, [i \in 1..Len(us) |->
                                              ImportTaskOf(st.tree, us[i], vis)])
               /\ enqueued = Len(us)
  /\ guards = <<>>
  /\ panicked = FALSE
  /\ imports = {}
  /\ errors = <<>>
  /\ dispatched = <<>>
  /\ expanded = {}
  /\ answer = NoAnswer

SpecImport == InitImport /\ [][RunImport]_vars

(* ------------------------------ claims -------------------------------- *)

\* the tree of the indexing context under analysis
T == trees[live.tree]

\* the non-root nodes of a tree
NodesOf(t) == 1..(len(t) - 1)

\* the qualified paths a query is made with
Paths == SeqsOf(Names, 1, MaxPathLen)

\* the names on the chain of ancestors of a node, the package root left out
RECURSIVE AncestorNames(_, _)
AncestorNames(t, idx) ==
  IF idx = 0 THEN <<>>
  ELSE Append(AncestorNames(t, Part(t, idx).parent), Part(t, idx).name)

\* some node of the tree has the path P
NamesNode(t, P) == \E n \in NodesOf(t) : AncestorNames(t, n) = P

\* the first component of P whose prefix names no node
FirstMissing(t, P) ==
  LET k == CHOOSE j \in 1..Len(P) :
             /\ ~NamesNode(t, SubSeq(P, 1, j))
             /\ \A i \in 1..(j - 1) : NamesNode(t, SubSeq(P, 1, i))
  IN P[k]

\* C1: find on a path that names no node of the tree returns an
\* UnresolvablePath error that names the first component without a matching
\* child; it never returns a node.
FindAbsentFails ==
  \A P \in Paths :
    ~NamesNode(T, P) =>
      LET r == find(T, P)
      IN ~r.ok /\ r.err = "UnresolvablePath" /\ r.at = FirstMissing(T, P)

\* C2: for every node n but the package root, find(qualified_path(n))
\* succeeds and returns n itself.
FindReturnsNode ==
  \A n \in NodesOf(T) : find(T, qualified_path(T, n)) = Ok(n)

\* the step drops the k-th guard
Released(k) == k \in 1..Len(guards) /\ guards' = RemoveAt(guards, k)

\* C3: the release of a guard sets current to the node that was current when
\* the guard was acquired, so pushes and releases that nest restore current;
\* and as long as nothing panicked, the guards alive form a chain from the
\* node current before the first of them down to current.
RoundTripStep ==
  \A k \in 1..Len(guards) :
    (Released(k) /\ guards[k].tree # 0 /\ ~panicked')
      => trees'[guards[k].tree].current = guards[k].prev

HasTreeGuard(g) == g.tree # 0

RoundTripChain ==
  ~panicked =>
    LET tg == SelectSeq(guards, HasTreeGuard)
    IN \A k \in 1..Len(tg) :
         tg[k].idx = IF k = Len(tg) THEN T.current ELSE tg[k + 1].prev

RoundTrip == [][RoundTripStep]_vars /\ []RoundTripChain

\* two scopes were pushed one inside the other and both guards released in
\* reverse order
RoundTripDone ==
  /\ ~panicked
  /\ guards = <<>>
  /\ paths[live.path] = <<>>
  /\ len(T) >= 3
  /\ Part(T, 2).parent = 1
  /\ T.current = 0

\* C4: the release of a guard that is not the most recently acquired one
\* alive aborts with an assertion failure.
OutOfOrderReleaseAborts ==
  [][\A k \in 1..Len(guards) :
       (k < Len(guards) /\ Released(k) /\ guards' # Front(guards)) => panicked']_vars

\* how often x occurs in the sequence s
Count(s, x) == Cardinality({i \in 1..Len(s) : s[i] = x})

\* C5: every non-root node has one parent, whose child list holds the id of
\* the node exactly once, and no other child list holds it.
ParentHoldsChildOnce ==
  \A n \in NodesOf(T) :
    /\ Part(T, n).parent \in 0..(len(T) - 1)
    /\ \A p \in 0..(len(T) - 1) :
         Count(Part(T, p).children, n) = IF p = Part(T, n).parent THEN 1 ELSE 0

\* ids are the indices and a parent id is below the id of the node
IdsAscend(t) ==
  \A i \in 0..(len(t) - 1) :
    /\ Part(t, i).id = i
    /\ IF i = 0 THEN Part(t, i).parent = NoId
       ELSE Part(t, i).parent \in 0..(i - 1)

\* C6: the node stored at index i has id i and every non-root node has a
\* parent id below its own id, in every tree: no id is reused and the parent
\* links have no cycle.
IdsNeverReused ==
  /\ \A h \in 1..Len(trees) : IdsAscend(trees[h])
  /\ IdsAscend(Inner_with_crate_name("a"))

\* a tree is full and holds a node below a node that is not the root
DeepTree == len(T) = MaxNodes /\ \E n \in NodesOf(T) : Part(T, n).parent >= 1

\* C7: no step removes a node or changes the id, name, kind, visibility or
\* parent of a node; the node count never decreases and a child list only
\* grows.
AppendOnlyStep ==
  /\ Len(trees') >= Len(trees)
  /\ \A h \in 1..Len(trees) :
       /\ len(trees'[h]) >= len(trees[h])
       /\ \A i \in 0..(len(trees[h]) - 1) :
            LET old == Part(trees[h], i)
                new == Part(trees'[h], i)
            IN /\ new.id = old.id
               /\ new.name = old.name
               /\ new.kind = old.kind
               /\ new.vis = old.vis
               /\ new.parent = old.parent
               /\ IsPrefix(old.children, new.children)

AppendOnly == [][AppendOnlyStep]_vars

\* a scope was pushed and released and an import has added an alias
ReleasedAndImported ==
  /\ guards = <<>>
  /\ \E n \in NodesOf(T) : Part(T, n).kind.tag = "Use"
  /\ \E n \in NodesOf(T) : Part(T, n).kind.tag # "Use" /\ n # T.current

\* C8: the tasks are dispatched in the order they were enqueued, each once:
\* the tasks dispatched so far are the first ones enqueued, in that order, and
\* the queue holds every later task, in the order of enqueuing.
FifoDispatch ==
  /\ dispatched = [i \in 1..Len(dispatched) |-> i]
  /\ Len(queue) = enqueued - Len(dispatched)
  /\ \A i \in 1..Len(queue) : queue[i].seq = Len(dispatched) + i

\* tasks pushed by handlers were dispatched while other tasks, of two kinds,
\* waited in the queue
FollowUpsDispatched ==
  /\ Len(dispatched) >= 4
  /\ Len(queue) >= 2
  /\ \E i, j \in 1..Len(queue) : queue[i].kind # queue[j].kind

\* the file of the private import scenario: a (1) holds y (2), a private fn,
\* and b (3) is a sibling of a
IsPrivateItemFile(t) ==
  /\ len(t) >= 4
  /\ Part(t, 1).name = "a" /\ is_module(Part(t, 1).kind) /\ Part(t, 1).parent = 0
  /\ Part(t, 2).name = "y" /\ Part(t, 2).vis = "Private" /\ Part(t, 2).parent = 1
  /\ Part(t, 3).name = "b" /\ is_module(Part(t, 3).kind) /\ Part(t, 3).parent = 0

\* C9: the Import task of `use a::y;` issued from b, with y private to a,
\* fails: an error is recorded, no alias is added to the tree and no import
\* entry is registered.
PrivateImportFails ==
  [][\A vis \in UseVis :
       (IsPrivateItemFile(T) /\ ProcessImport(len(T) + 1, 3, <<"a", "y">>, "PathSegment", vis))
         => (Len(errors') = Len(errors) + 1 /\ trees' = trees /\ imports' = imports)]_vars

\* the file of the super visibility scenario: a (1) holds b (2) and c (4),
\* b holds i (3), visible to super, and z (5) is another top-level module
IsSuperItemFile(t) ==
  /\ len(t) >= 6
  /\ Part(t, 1).name = "a" /\ is_module(Part(t, 1).kind) /\ Part(t, 1).parent = 0
  /\ Part(t, 2).name = "b" /\ is_module(Part(t, 2).kind) /\ Part(t, 2).parent = 1
  /\ Part(t, 3).vis = "Super" /\ Part(t, 3).parent = 2
  /\ Part(t, 4).name = "c" /\ is_module(Part(t, 4).kind) /\ Part(t, 4).parent = 1
  /\ Part(t, 5).name = "z" /\ is_module(Part(t, 5).kind) /\ Part(t, 5).parent = 0

\* C10: an item visible to super inside a::b is visible from a and from a::c
\* and not from the top-level module z.
SuperVisibleFromParent ==
  IsSuperItemFile(T) =>
    LET target == qualified_path(T, 3)
    IN /\ is_visible_to(T, qualified_path(T, 1), target) = OkBool(TRUE)
       /\ is_visible_to(T, qualified_path(T, 4), target) = OkBool(TRUE)
       /\ is_visible_to(T, qualified_path(T, 5), target) = OkBool(FALSE)

\* p is a strict prefix of q
StrictPrefix(p, q) == Len(p) < Len(q) /\ SubSeq(q, 1, Len(p)) = p

\* C11: for a target that resolves to a node visible to super,
\* is_visible_to(source, target) is true iff the qualified path of the parent
\* module of the module that encloses the target equals, or is a strict
\* prefix of, common_ancestor(source, target).
SuperVisibleIffParentModule ==
  (answer.op = "is_visible_to" /\ find(T, answer.self).ok /\ find(T, answer.other).ok) =>
    LET r == resolve(T, find(T, answer.other).idx)
        enclosing == parent_mod(T, r)
        super_ == IF enclosing = NoId THEN NoId ELSE parent_mod(T, enclosing)
    IN (Part(T, r).vis = "Super" /\ super_ # NoId) =>
         LET super_qualpath == qualified_path(T, super_)
             ancestor_qualpath == common_ancestor(answer.self, answer.other)
         IN answer.res = OkBool(super_qualpath = ancestor_qualpath
                                \/ StrictPrefix(super_qualpath, ancestor_qualpath))

\* C12: is_ancestor_of(p, q) holds iff p is a strict prefix of q.
IsAncestorIffStrictPrefix ==
  answer.op = "is_ancestor_of" =>
    (answer.val <=> StrictPrefix(answer.self, answer.other))

\* the nearest module on the chain of parents that starts at the node itself
RECURSIVE NearestModule(_, _)
NearestModule(t, idx) ==
  IF idx = NoId THEN NoId
  ELSE IF Part(t, idx).kind.tag \in {"Mod", "Crate"} THEN idx
  ELSE NearestModule(t, Part(t, idx).parent)

\* the query is is_visible_to and its source and its target resolve
VisibilityAnswered ==
  answer.op = "is_visible_to" /\ find(T, answer.self).ok /\ find(T, answer.other).ok

\* the nodes the source and the target of the query resolve to
SourceNode == resolve(T, find(T, answer.self).idx)

TargetNode == resolve(T, find(T, answer.other).idx)

\* C13: for a target that resolves to a private node, is_visible_to is true
\* iff the nearest module of the target is the nearest module of the source;
\* it is false when either has none.
PrivateVisibleIffSameModule ==
  (VisibilityAnswered /\ Part(T, TargetNode).vis = "Private") =>
    answer.res = OkBool(/\ NearestModule(T, TargetNode) # NoId
                        /\ NearestModule(T, SourceNode) # NoId
                        /\ NearestModule(T, TargetNode) = NearestModule(T, SourceNode))

\* a private item was found visible from another node of its module
PrivateSeenInModule ==
  /\ VisibilityAnswered
  /\ Part(T, TargetNode).vis = "Private"
  /\ SourceNode # TargetNode
  /\ answer.res = OkBool(TRUE)

\* C14: for the tags that do not depend on the paths is_visible_to is true
\* for Public and Crate and false for Inherit and None, whatever the source.
TagDecidesVisibility ==
  VisibilityAnswered =>
    /\ Part(T, TargetNode).vis \in {"Public", "Crate"} => answer.res = OkBool(TRUE)
    /\ Part(T, TargetNode).vis \in {"Inherit", "None"} => answer.res = OkBool(FALSE)

\* an item of inherited visibility was found hidden from its own module
InheritedHidden ==
  /\ VisibilityAnswered
  /\ Part(T, TargetNode).vis = "Inherit"
  /\ NearestModule(T, SourceNode) = NearestModule(T, TargetNode)
  /\ answer.res = OkBool(FALSE)

\* the file of the public import scenario: a (1) holds x (2), a public fn,
\* and b (3) is a sibling of a
IsPublicItemFile(t) ==
  /\ len(t) >= 4
  /\ Part(t, 1).name = "a" /\ is_module(Part(t, 1).kind) /\ Part(t, 1).parent = 0
  /\ Part(t, 2).name = "x" /\ Part(t, 2).vis = "Public" /\ Part(t, 2).parent = 1
  /\ Part(t, 3).name = "b" /\ is_module(Part(t, 3).kind) /\ Part(t, 3).parent = 0

\* the worker dispatches the Import task of `use a::x;` issued from b
PublicImportRuns ==
  /\ IsPublicItemFile(T)
  /\ queue # <<>>
  /\ Head(queue).kind = "Import"
  /\ Head(queue).last = "PathSegment"
  /\ Head(queue).qualified_path = <<"a", "x">>
  /\ Head(queue).path_ref_id = 3
  /\ RunImport

\* C15: once the Import task of `use a::x;` issued from b is processed, with
\* x public in a, find(b::x) returns an alias that resolves to the node of
\* a::x and is_visible_to(S, b::x) is true for every source S that resolves.
PublicImportStep ==
  PublicImportRuns =>
    LET t == trees'[live.tree]
        f == find(t, <<"b", "x">>)
    IN /\ f.ok
       /\ Part(t, f.idx).kind.tag = "Use"
       /\ Part(t, f.idx).parent = 3
       /\ resolve(t, f.idx) = 2
       /\ \A S \in TreeArgs(t) :
            find(t, S).ok => is_visible_to(t, S, <<"b", "x">>) = OkBool(TRUE)

PublicImportAliases == [][PublicImportStep]_vars

\* the import was processed: b holds the alias x of a::x
PublicImportDone ==
  /\ IsPublicItemFile(T)
  /\ dispatched # <<>>
  /\ \E n \in NodesOf(T) :
       /\ Part(T, n).parent = 3
       /\ Part(T, n).name = "x"
       /\ Part(T, n).kind = Use(2)
  /\ \E e \in imports : e.name = <<"a", "x">>

\* the file of the wildcard scenario: a (1) holds b (2), b holds x (3),
\* public, and y (4), private, and z (5) is the importer
IsWildcardFile(t) ==
  /\ len(t) >= 6
  /\ Part(t, 1).name = "a" /\ is_module(Part(t, 1).kind) /\ Part(t, 1).parent = 0
  /\ Part(t, 2).name = "b" /\ is_module(Part(t, 2).kind) /\ Part(t, 2).parent = 1
  /\ Part(t, 3).name = "x" /\ Part(t, 3).vis = "Public" /\ Part(t, 3).parent = 2
  /\ Part(t, 4).name = "y" /\ Part(t, 4).vis = "Private" /\ Part(t, 4).parent = 2
  /\ Part(t, 5).name = "z" /\ is_module(Part(t, 5).kind) /\ Part(t, 5).parent = 0
  /\ Part(t, 2).children = <<3, 4>>

\* the worker dispatches the Import task of `use a::b::*;` issued from z
WildcardImportRuns ==
  /\ IsWildcardFile(T)
  /\ queue # <<>>
  /\ Head(queue).kind = "Import"
  /\ Head(queue).last = "Wildcard"
  /\ Head(queue).qualified_path = <<"a", "b">>
  /\ Head(queue).path_ref_id = 5
  /\ RunImport

\* C16: with one public and one private child under a::b, the Import task of
\* `use a::b::*` adds one node, the alias of the public child, and one import
\* entry, for the public child; nothing is added for the private child.
WildcardImportStep ==
  WildcardImportRuns =>
    LET t == trees'[live.tree]
    IN /\ len(t) = len(T) + 1
       /\ Part(t, len(T)).name = "x"
       /\ Part(t, len(T)).kind = Use(3)
       /\ Part(t, len(T)).parent = 5
       /\ Part(t, 5).children = Append(Part(T, 5).children, len(T))
       /\ imports' = imports \cup {[item |-> Head(queue).item, name |-> <<"a", "b", "x">>]}
       /\ errors' = errors

WildcardImportsPublicOnly == [][WildcardImportStep]_vars

\* the wildcard import was processed: z holds an alias of x and none of y
WildcardImportDone ==
  /\ IsWildcardFile(T)
  /\ dispatched # <<>>
  /\ \E n \in NodesOf(T) : Part(T, n).parent = 5 /\ Part(T, n).kind = Use(3)
  /\ \A n \in NodesOf(T) : Part(T, n).parent = 5 => Part(T, n).name # "y"
  /\ \E e \in imports : e.item = <<String("z")>> /\ e.name = <<"a", "b", "x">>

\* the worker dispatches an ExpandMacro task of kind Item whose path builder
\* ends with the slot of the macro call
ItemMacroRuns ==
  /\ queue # <<>>
  /\ Head(queue).kind = "ExpandMacro"
  /\ Head(queue).mkind = "Item"
  /\ paths[Head(queue).items.path] # <<>>
  /\ Last(paths[Head(queue).items.path]).component.tag = "Macro"
  /\ RunExpandMacro

\* the path builder of the task is the one it had with the slot taken off,
\* and the Index task pushed, if any, carries that path builder
ItemMacroStep ==
  ItemMacroRuns =>
    LET h == Head(queue).items
    IN /\ item(paths'[h.path]) = Front(item(paths[h.path]))
       /\ trees'[h.tree] = trees[h.tree]
       /\ Len(queue') = Len(queue) =>
            /\ Last(queue').kind = "Index"
            /\ Last(queue').akind = "Item"
            /\ Last(queue').items = h

\* the path a declaration named name gets from the path builder of a task:
\* push_named_kind appends the name to the path
DeclaredItem(task, name) == Append(item(paths[task.items.path]), String(name))

\* the Index tasks of item macro expansions that wait in the queue: the path
\* of a declaration is the path of the macro call with the slot replaced by
\* the name of the declaration
ItemMacroQueued ==
  \A i \in 1..Len(queue) :
    (queue[i].kind = "Index" /\ queue[i].akind = "Item") =>
      /\ Last(queue[i].item).tag = "Macro"
      /\ \A name \in Names :
           DeclaredItem(queue[i], name) = Append(Front(queue[i].item), String(name))

\* C17: an ExpandMacro task of kind Item takes the slot of the macro call
\* off its path builder and the Index task it pushes carries that path
\* builder, so a declaration of the expansion gets the path that encloses
\* the macro call followed by its own name, without the slot of the call.
ItemMacroLeavesNoSlot == [][ItemMacroStep]_vars /\ []ItemMacroQueued

\* the Index task of an item macro expansion waits in the queue, its path
\* builder without the slot
ItemMacroExpanded ==
  \E i \in 1..Len(queue) :
    /\ queue[i].kind = "Index"
    /\ queue[i].akind = "Item"
    /\ queue[i].ast # <<>>
    /\ Last(queue[i].item).tag = "Macro"
    /\ item(paths[queue[i].items.path]) = Front(queue[i].item)


\* the tasks of the queue that work on a snapshot
SnapshotTasks == {i \in 1..Len(queue) : queue[i].from.tree # 0}

\* the snapshot of a task that waits for its expansion holds the path stack and
\* the tree (nodes and current) it was taken with
SnapshotKept ==
  \A i \in SnapshotTasks :
    queue[i].kind = "ExpandMacro"
      => /\ paths[queue[i].items.path] = queue[i].snap.path
         /\ trees[queue[i].items.tree] = queue[i].snap.tree

\* a step changes no path stack and no tree but those of the Items of the task
\* it runs, and a task that runs on a snapshot leaves the Items the snapshot
\* was taken of as they were
SnapshotStep ==
  queue # <<>> =>
    LET task == Head(queue) IN
      /\ \A h \in 1..Len(trees) : h # task.items.tree => trees'[h] = trees[h]
      /\ \A h \in 1..Len(paths) : h # task.items.path => paths'[h] = paths[h]
      /\ task.from.tree # 0 => /\ trees'[task.from.tree] = trees[task.from.tree]
                               /\ paths'[task.from.path] = paths[task.from.path]

\* C18: a snapshot of Items is a copy that is independent in both directions:
\* no push, guard release, pop or alias appended by an Import on the live Items
\* changes the path stack, the nodes or the current pointer of the snapshot,
\* and no operation on the snapshot changes the live ones.
SnapshotIndependent == [][SnapshotStep]_vars /\ []SnapshotKept

\* a snapshot waits for its expansion, unchanged, while the tree it was taken
\* of has changed since
LiveChangedSinceSnapshot ==
  \E i \in SnapshotTasks :
    /\ queue[i].kind = "ExpandMacro"
    /\ trees[queue[i].from.tree] # queue[i].snap.tree
    /\ paths[queue[i].from.path] # queue[i].snap.path
    /\ trees[queue[i].items.tree] = queue[i].snap.tree
    /\ paths[queue[i].items.path] = queue[i].snap.path


\* C19: resolving a node through alias indirection always ends at a node that
\* is not an alias (a chain that revisits an id being reported as a failure).
ResolveEndsAtNonAlias ==
  answer.op = "resolve" => Part(trees[live.tree], answer.idx).kind.tag # "Use"


\* the task about to run is an Import whose path names nothing: no registered
\* name of the context or of the unit starts with it and the tree holds no
\* node at it
AbsentImportRuns ==
  /\ ~panicked
  /\ queue # <<>>
  /\ Head(queue).kind = "Import"
  /\ LET task == Head(queue)
         name == SelectSeq(task.qualified_path, NonEmpty)
     IN /\ get(trees[task.items.tree], task.path_ref_id)
        /\ ~contains_prefix(ContextNames, name)
        /\ ~contains_prefix(UnitNames(trees), name)
        /\ ~find(trees[task.items.tree], task.qualified_path).ok

AbsentImportStep ==
  AbsentImportRuns => /\ errors' = Append(errors, "MissingModule")
                      /\ UNCHANGED <<trees, imports>>

\* C20: an Import task, wildcard or not, fails with a MissingModule error when
\* the imported prefix is wholly absent from the tree and from the registered
\* names.
AbsentImportFails == [][AbsentImportStep]_vars


\* errs is es with exactly one error appended
OneMoreError(es, errs) ==
  /\ Len(errs) = Len(es) + 1
  /\ SubSeq(errs, 1, Len(es)) = es

\* q is the queue rest with exactly one task appended at the back
OneMoreTask(rest, q) ==
  /\ Len(q) = Len(rest) + 1
  /\ SubSeq(q, 1, Len(rest)) = rest

MacroRuns ==
  /\ ~panicked
  /\ queue # <<>>
  /\ Head(queue).kind = "ExpandMacro"

MacroStep ==
  MacroRuns =>
    LET task == Head(queue)
        slot == Items_pop(paths[task.items.path]).component.tag = "Macro"
        pushed == queue'[Len(queue')]
        succeeds == /\ errors' = errors
                    /\ OneMoreTask(Tail(queue), queue')
                    /\ pushed.kind = "Index"
                    /\ pushed.items = task.items
                    /\ pushed.akind = (IF task.mkind = "Item" THEN "Item" ELSE "Expr")
                    /\ \E res \in MacroResults : res.ok /\ pushed.ast = res.ast
                    /\ task.mkind = "Item" => slot
        fails == /\ OneMoreError(errors, errors')
                 /\ queue' = Tail(queue)
                 /\ errors'[Len(errors')] \in {"Macro", "Internal"}
                 /\ errors'[Len(errors')] = "Internal" => task.mkind = "Item" /\ ~slot
    IN succeeds # fails

\* C21: an ExpandMacro task ends in exactly one of two ways: the expansion
\* succeeds and exactly one Index task over the expansion is appended to the
\* back of the queue, or it fails (expansion error, or for an item macro a last
\* path component that is no macro slot) and exactly one error is recorded and
\* no task is enqueued.
MacroEndsOneOfTwoWays == [][MacroStep]_vars

\* one macro call has failed and the Index task of another expansion is at the
\* back of the queue
MacroFailedAndExpanded ==
  /\ \E i \in 1..Len(errors) : errors[i] = "Macro"
  /\ queue # <<>>
  /\ queue[Len(queue)].kind = "Index"
  /\ queue[Len(queue)].akind \in {"Item", "Expr"}


LoadRuns ==
  /\ ~panicked
  /\ queue # <<>>
  /\ Head(queue).kind = "LoadFile"

LoadStep ==
  LoadRuns =>
    LET task == Head(queue)
        pushed == queue'[Len(queue')]
    IN IF task.source_id \in DOMAIN Sources /\ Sources[task.source_id].parses
       THEN /\ errors' = errors
            /\ OneMoreTask(Tail(queue), queue')
            /\ pushed.kind = "Index"
            /\ pushed.akind = "File"
            /\ pushed.ast = Sources[task.source_id].ast
            /\ pushed.item = task.item
            /\ pushed.items.path \notin 1..Len(paths)
            /\ pushed.items.tree \notin 1..Len(trees)
            /\ item(paths'[pushed.items.path]) = task.item
       ELSE /\ OneMoreError(errors, errors')
            /\ queue' = Tail(queue)

\* C22: a LoadFile task whose source exists and parses enqueues exactly one
\* Index task at the back of the queue, with the whole file and a fresh Items
\* whose path holds the components of the task's item; with an unknown source
\* id or a text that does not parse it records one error and enqueues nothing.
LoadFileEnqueuesIndex == [][LoadStep]_vars

\* the file of a module has been loaded: the Index task at the back of the
\* queue carries an Items whose path is the item of the module
ModuleFileLoaded ==
  /\ queue # <<>>
  /\ LET pushed == queue[Len(queue)]
     IN /\ pushed.kind = "Index"
        /\ pushed.akind = "File"
        /\ pushed.item # <<>>
        /\ item(paths[pushed.items.path]) = pushed.item


\* s is a prefix of t
PrefixOf(s, t) == Len(s) <= Len(t) /\ SubSeq(t, 1, Len(s)) = s

\* the task numbered n waits in the queue / has been taken off the queue
Queued(n) == \E i \in 1..Len(queue) : queue[i].seq = n
Dispatched(n) == \E i \in 1..Len(dispatched) : dispatched[i] = n

\* the queue holds a task and the bound on the number of tasks lets no step be
\* taken
AtTaskBound ==
  /\ queue # <<>>
  /\ LET task == Head(queue)
     IN CASE task.kind = "LoadFile" ->
               /\ task.source_id \in DOMAIN Sources
               /\ Sources[task.source_id].parses
               /\ enqueued >= MaxTasks
          [] task.kind = "Index" -> ~IndexEnabled
          [] OTHER -> FALSE

\* a step that records an error records one, keeps the earlier ones, leaves
\* the tasks behind the failing one in the queue in their order and does not
\* end the worker; no step removes an error
FailureStep ==
  /\ PrefixOf(errors, errors')
  /\ errors' # errors =>
       /\ OneMoreError(errors, errors')
       /\ queue # <<>>
       /\ dispatched' = Append(dispatched, Head(queue).seq)
       /\ PrefixOf(Tail(queue), queue')
       /\ ~panicked'

\* C23: a failing task never suppresses later work: its error is appended to
\* the error list, every task still in the queue is dispatched afterwards, and
\* errors recorded earlier are never removed.
FailureKeepsWorking ==
  /\ [][FailureStep]_vars
  /\ \A n \in 1..MaxTasks :
       (errors # <<>> /\ Queued(n)) ~> (Dispatched(n) \/ AtTaskBound)

\* every kind of task has been dispatched after the first task had failed, and
\* the queue is empty
AllDispatchedAfterFailure ==
  /\ errors # <<>>
  /\ errors[1] \in {"Parse", "Internal"}
  /\ queue = <<>>
  /\ Len(dispatched) = enqueued
  /\ Len(dispatched) >= 6


\* the tasks of the queue that hold an Items that is no snapshot
LiveTasks ==
  {i \in 1..Len(queue) : queue[i].items.tree # 0 /\ queue[i].from.tree = 0}

\* C24: there is one scope tree for the whole compilation: every Index, Import
\* and ExpandMacro task other than a macro snapshot operates on the same shared
\* tree storage.
OneScopeTree ==
  \A i, j \in LiveTasks : queue[i].items.tree = queue[j].items.tree


\* anc is a strict ancestor of idx on the chain of parents
RECURSIVE IsDescendant(_, _, _)
IsDescendant(t, idx, anc) ==
  LET p == Part(t, idx).parent
  IN p # NoId /\ (p = anc \/ IsDescendant(t, p, anc))

\* the path of the descendant n of the node the path source names, spelled as
\* source is
DescendantPath(t, source, n) ==
  LET s == find(t, source).idx
      q == qualified_path(t, n)
  IN source \o SubSeq(q, Len(qualified_path(t, s)) + 1, Len(q))

\* C25: visibility monotonicity: if is_visible_to(S, T) is true for a target T
\* that is visible to super and S lies inside the parent module of the module
\* that defines T, then is_visible_to(S', T) is true for every descendant S'
\* of S.
SuperVisibilityMonotone ==
  (VisibilityAnswered /\ answer.res = OkBool(TRUE)
     /\ Part(T, TargetNode).vis = "Super") =>
    LET defining == parent_mod(T, TargetNode)
        super_ == IF defining = NoId THEN NoId ELSE parent_mod(T, defining)
        s == find(T, answer.self).idx
    IN (super_ # NoId
          /\ (s = super_ \/ IsDescendant(T, s, super_))) =>
         \A n \in NodesOf(T) :
           IsDescendant(T, n, s) =>
             is_visible_to(T, DescendantPath(T, answer.self, n), answer.other)
               = OkBool(TRUE)


\* the names of the aliases among the children of the node idx
AliasNames(t, idx) ==
  {Part(t, n).name : n \in {m \in NodesOf(t) : /\ Part(t, m).parent = idx
                                               /\ Part(t, m).kind.tag = "Use"}}

\* the task about to run is a wildcard Import and the task behind it is the
\* same Import: same importer, same prefix
WildcardTwiceRuns ==
  /\ ~panicked
  /\ Len(queue) >= 2
  /\ Head(queue).kind = "Import"
  /\ Head(queue).last = "Wildcard"
  /\ [queue[2] EXCEPT !.seq = Head(queue).seq] = Head(queue)
  /\ imports = {}

\* the children of the node the prefix names are the same before and after
\* the step
PrefixUnchanged ==
  LET task == Head(queue)
      t == trees[task.items.tree]
      f == find(t, task.qualified_path)
  IN f.ok => Part(trees'[task.items.tree], f.idx).children = Part(t, f.idx).children

\* the second run, made of the state the first run leaves, imports the names
\* the first run imported and leaves the importer with the alias names it has
WildcardTwiceStep ==
  (WildcardTwiceRuns /\ PrefixUnchanged) =>
    LET again == queue[2]
        t == trees'[again.items.tree]
        name == SelectSeq(again.qualified_path, NonEmpty)
        cs == iter_components(ContextNames, name)
                \cup iter_components(UnitNames(trees'), name)
    IN \A comps \in Orderings(cs) :
         LET fresh == process(t, UnitNames(trees'), {}, again, comps)
             r == process(t, UnitNames(trees'), imports', again, comps)
         IN /\ fresh.imports = imports'
            /\ r.imports = imports'
            /\ (fresh.result = "Ok") = (errors' = errors)
            /\ ~r.panic
            /\ AliasNames(r.tree, again.path_ref_id) = AliasNames(t, again.path_ref_id)

\* C26: wildcard-import idempotence: processing the same wildcard Import (same
\* importer, same prefix) a second time while the children of the prefix are
\* unchanged yields the same set of imported names as the first time and
\* leaves the importer with the same set of alias names.
WildcardImportIdempotent == [][WildcardTwiceStep]_vars

\* `use a::b::*` from z was processed twice: z holds two aliases of x, one
\* alias name, and the imports hold one entry
WildcardImportedTwice ==
  /\ IsWildcardFile(T)
  /\ Len(dispatched) = 2
  /\ Cardinality({n \in NodesOf(T) : Part(T, n).parent = 5 /\ Part(T, n).kind = Use(3)}) = 2
  /\ AliasNames(T, 5) = {"x"}
  /\ imports = {[item |-> <<String("z")>>, name |-> <<"a", "b", "x">>]}


\* C27: the release of a guard of the path builder pops exactly one element of
\* the path stack, and a release that finds the stack empty (after an
\* Items::pop by hand) is fatal in every build.
ReleaseOnEmptyAborts ==
  [][\A k \in 1..Len(guards) :
       Released(k) =>
         IF paths[guards[k].path] # <<>>
         THEN paths'[guards[k].path] = Front(paths[guards[k].path])
         ELSE panicked']_vars


\* the node is the scope of a block, an async block or a closure
IsAnonymous(t, n) == Part(t, n).kind.tag \in {"Block", "Closure"}

\* C28: anonymous components are numbered by sibling order, so no two
\* anonymous scopes pushed under the same parent receive the same index, also
\* when the parent is the empty root path of a file.
AnonymousSiblingsDistinct ==
  \A n, m \in NodesOf(T) :
    (n < m /\ IsAnonymous(T, n) /\ IsAnonymous(T, m)
       /\ Part(T, n).parent = Part(T, m).parent)
      => Part(T, n).name # Part(T, m).name


\* the name push_scoped is given for a component of the path
ComponentName(c) == IF c.tag = "String" THEN c.s ELSE ToStr(c.n)

\* C29: the path builder and the tree stay in lockstep: in every state reached
\* by pushes and releases of guards the path stack has one component for each
\* node on the chain from the base down to the current node of the tree, in
\* the same order with the same names.
PathAndTreeInLockstep ==
  ~panicked =>
    [i \in 1..Len(paths[live.path]) |-> ComponentName(paths[live.path][i].component)]
      = AncestorNames(T, T.current)


\* the chain n, parent(n), parent(parent(n)), ... up to the package root
RECURSIVE ParentChain(_, _)
ParentChain(t, n) ==
  IF n = NoId THEN <<>> ELSE <<n>> \o ParentChain(t, Part(t, n).parent)

\* the first node of the chain whose kind is module or crate, or NoId
FirstModule(t, chain) ==
  LET mods == {i \in 1..Len(chain) : Part(t, chain[i]).kind.tag \in {"Mod", "Crate"}}
  IN IF mods = {} THEN NoId
     ELSE chain[CHOOSE i \in mods : \A j \in mods : i <= j]

\* C30: self_mod(n) is the first node of kind module or crate on the chain n,
\* parent(n), parent(parent(n)), ..., n included, and none iff the chain holds
\* no such node; parent_mod(n) is the same for the chain that starts at
\* parent(n).
NearestModuleOnChain ==
  /\ answer.op = "self_mod"
       => answer.idx = FirstModule(T, ParentChain(T, answer.node))
  /\ answer.op = "parent_mod"
       => answer.idx = FirstModule(T, Tail(ParentChain(T, answer.node)))

\* parent_mod of a node whose parent is no module returned a module further
\* up the chain
ModuleAboveParent ==
  /\ answer.op = "parent_mod"
  /\ answer.idx # NoId
  /\ answer.idx # Part(T, answer.node).parent


\* the first node of the chain whose kind is struct or enum, or NoId
FirstType(t, chain) ==
  LET types == {i \in 1..Len(chain) : Part(t, chain[i]).kind.tag \in {"Struct", "Enum"}}
  IN IF types = {} THEN NoId
     ELSE chain[CHOOSE i \in types : \A j \in types : i <= j]

\* C31: self_type returns the nearest struct or enum node that encloses the
\* current scope, the current node or one of its ancestors, and fails with
\* UnresolvablePath when no such node is a struct or enum.
SelfTypeIsNearestEnclosingType ==
  answer.op = "self_type" =>
    LET nearest == FirstType(T, ParentChain(T, T.current))
    IN IF nearest = NoId
       THEN ~answer.res.ok /\ answer.res.err = "UnresolvablePath"
       ELSE answer.res = Ok(nearest)


\* the module in which the declaration of the target is written: the nearest
\* module above the target
DeclaringModule == NearestModule(T, Part(T, TargetNode).parent)

\* C32: a private declaration is visible exactly from the sources whose
\* enclosing module is the module in which the declaration is written; a
\* private module b declared in module a is visible from a source in a.
PrivateVisibleFromDeclaringModule ==
  (VisibilityAnswered /\ Part(T, TargetNode).vis = "Private"
     /\ DeclaringModule # NoId) =>
    answer.res = OkBool(NearestModule(T, SourceNode) = DeclaringModule)


(* ------------------------------ sec::vis ------------------------------ *)

\* sec::vis::Vis; Path carries the item the declaration is restricted to
Vis(tag) == [tag |-> tag, item |-> <<>>]

VisPath(vis_in) == [tag |-> "Path", item |-> vis_in]

\* paths_eq that stops at the end of the target
RECURSIVE paths_eq_prefix(_, _)
paths_eq_prefix(isource, itarget) ==
  IF itarget = <<>> THEN TRUE
  ELSE IF isource = <<>> THEN FALSE
  ELSE IF Head(isource) # Head(itarget) THEN FALSE
  ELSE paths_eq_prefix(Tail(isource), Tail(itarget))

\* sec::vis::paths_eq: both iterators are advanced in step until one ends
RECURSIVE paths_eq(_, _)
paths_eq(isource, itarget) ==
  IF isource = <<>> THEN itarget = <<>>
  ELSE IF itarget = <<>> THEN FALSE
  ELSE IF Head(isource) # Head(itarget) THEN FALSE
  ELSE paths_eq(Tail(isource), Tail(itarget))

\* sec::vis::is_same_crate: the first components, both strings and equal, or
\* both items empty
is_same_crate(isource, itarget) ==
  IF isource # <<>> /\ itarget # <<>>
  THEN /\ Head(isource).tag = "String"
       /\ Head(itarget).tag = "String"
       /\ Head(isource).s = Head(itarget).s
  ELSE isource = <<>> /\ itarget = <<>>

\* sec::vis::is_visible_to
vis_is_visible_to(source, target, vis) ==
  CASE vis.tag = "Pub" -> TRUE
    [] vis.tag = "None" -> paths_eq(source, target)
    [] vis.tag = "Super" -> FALSE
    [] vis.tag = "Crate" -> is_same_crate(source, target)
    [] vis.tag = "Path" -> FALSE

\* the components items are built of: two names and an anonymous block
VisComponents == {String("a"), String("b"), Anon("Block", 0)}

\* the items is_visible_to is applied to
VisItems == SeqsOf(VisComponents, 0, MaxPathLen)

Vises == {Vis("None"), Vis("Pub"), Vis("Super"), Vis("Crate")}
           \cup {VisPath(i) : i \in SeqsOf(VisComponents, 0, 1)}

\* a call of sec::vis::is_visible_to: its arguments and, once it returned,
\* its value
VisCall(source, target, vis, returned, val) ==
  [op |-> "sec::vis::is_visible_to", self |-> source, other |-> target,
   vis |-> vis, returned |-> returned, val |-> val]

InitVis ==
  /\ trees = <<Items_new_tree(Inner_empty, <<>>)>>
  /\ paths = <<Items_new_path(<<>>)>>
  /\ guards = <<>>
  /\ panicked = FALSE
  /\ imports = {}
  /\ errors = <<>>
  /\ queue = <<>>
  /\ enqueued = 0
  /\ dispatched = <<>>
  /\ expanded = {}
  /\ \E source, target \in VisItems, vis \in Vises :
       answer = VisCall(source, target, vis, FALSE, FALSE)

CallIsVisibleTo ==
  /\ ~answer.returned
  /\ answer' = [answer EXCEPT !.returned = TRUE,
                              !.val = vis_is_visible_to(answer.self, answer.other, answer.vis)]
  /\ UNCHANGED <<trees, paths, guards, panicked, imports, workerVars>>

NextVis == CallIsVisibleTo

SpecVis == InitVis /\ [][NextVis]_vars

\* C33: sec::vis::is_visible_to agrees with the reference for all item paths:
\* with Vis::Pub it is true for every source and target, with Vis::None it is
\* true iff source and target have the same components in the same order, so
\* a target that is a strict prefix of the source is not visible.
VisAgreesWithReference ==
  answer.returned =>
    /\ answer.vis.tag = "Pub" => answer.val
    /\ answer.vis.tag = "None" =>
         (answer.val <=>
            /\ Len(answer.self) = Len(answer.other)
            /\ \A i \in 1..Len(answer.self) : answer.self[i] = answer.other[i])

\* Vis::None was asked for a target that is a strict prefix of the source
NoneAskedForStrictPrefix ==
  /\ answer.returned
  /\ answer.vis.tag = "None"
  /\ StrictPrefix(answer.other, answer.self)
  /\ ~answer.val


\* the expansion depth a chain ExpandMacro -> Index -> ExpandMacro may reach
MaxExpansionDepth == 2

\* a step that dispatches an ExpandMacro task at the limit records an error
\* and enqueues nothing
CutOffStep ==
  (/\ queue # <<>>
   /\ Head(queue).kind = "ExpandMacro"
   /\ Head(queue).depth >= MaxExpansionDepth
   /\ dispatched' = Append(dispatched, Head(queue).seq)) =>
    /\ OneMoreError(errors, errors')
    /\ enqueued' = enqueued
    /\ queue' = Tail(queue)

\* C34: macro expansion is bounded by an explicit maximum expansion depth: a
\* chain ExpandMacro -> Index -> ExpandMacro that exceeds the limit is cut off
\* with an error, so that the queue empties even for a macro whose expansion
\* always holds another macro call.
ExpansionCutOffAtLimit == [][CutOffStep]_vars


\* every task that was ever enqueued has been dispatched, once
AllDispatched ==
  /\ Len(dispatched) = enqueued
  /\ \A n \in 1..enqueued : Dispatched(n)

\* C35: Worker.run runs to exhaustion: when only finitely many tasks are ever
\* enqueued run eventually returns, it returns only with an empty queue,
\* every task that was ever enqueued has been dispatched by then, and nothing
\* is done after the return.
RunsToExhaustion ==
  /\ <>(queue = <<>> \/ AtTaskBound)
  /\ [](queue = <<>> => AllDispatched)
  /\ [][queue # <<>>]_vars

\* run returned after a chain of macro expansions whose last expression was
\* indexed
ReturnedAfterExpansions ==
  /\ queue = <<>>
  /\ expanded # {}
  /\ enqueued >= 8
  /\ AllDispatched


\* the step dispatches an Import task whose use declaration ends in no
\* wildcard
PlainImportRuns ==
  /\ queue # <<>>
  /\ Head(queue).kind = "Import"
  /\ Head(queue).last # "Wildcard"
  /\ dispatched' = Append(dispatched, Head(queue).seq)

\* the ids of the nodes of t that the path P names
IdsNamed(t, P) == {Part(t, n).id : n \in {m \in NodesOf(t) : AncestorNames(t, m) = P}}

PlainImportStep ==
  PlainImportRuns =>
    LET task == Head(queue)
        t == trees[task.items.tree]
        after == trees'[task.items.tree]
        alias == Part(after, len(t))
        named == IdsNamed(t, task.qualified_path)
    IN /\ errors' = errors
       /\ ~panicked'
       /\ len(after) = len(t) + 1
       /\ alias.parent = task.path_ref_id
       /\ alias.name = Last(task.qualified_path)
       /\ alias.kind.tag = "Use"
       /\ IF named = {} THEN alias.kind.id = 0 ELSE alias.kind.id \in named
       /\ imports' = imports \cup {[item |-> task.item, name |-> task.qualified_path]}

MissingModuleStep ==
  (/\ queue # <<>>
   /\ Head(queue).kind = "Import"
   /\ errors' = Append(errors, "MissingModule")) =>
    /\ Head(queue).last = "Wildcard"
    /\ trees' = trees
    /\ paths' = paths
    /\ imports' = imports
    /\ queue' = Tail(queue)
    /\ enqueued' = enqueued
    /\ ~panicked'

\* C37: when a wildcard Import fails with MissingModule the import is skipped
\* without side effects: no alias node is appended to the scope tree, no
\* import entry is registered in the symbol table and the queue is unchanged;
\* only the error is recorded.
MissingModuleSkipsImport == [][MissingModuleStep]_vars

\* a wildcard import failed with MissingModule after an import that had
\* appended an alias and registered an entry
ImportSkippedAfterImport ==
  /\ Len(dispatched) = 2
  /\ errors = <<"MissingModule">>
  /\ imports # {}
  /\ Aliases(T) # {}


\* C38: in every reachable tree state every alias node created by Import
\* processing targets either the placeholder id 0 or a node whose id is
\* strictly smaller than the alias node's own id; hence following alias
\* targets visits strictly decreasing ids and resolve ends at a node that is
\* no alias or holds the placeholder.
AliasTargetsEarlier ==
  \A h \in 1..Len(trees) :
    \A n \in Aliases(trees[h]) :
      LET t == trees[h]
          target == Part(t, n).kind.id
      IN /\ target = 0 \/ (target > 0 /\ target < Part(t, n).id)
         /\ resolve(t, n) <= n
         /\ Part(t, resolve(t, n)).kind.tag = "Use"
              => Part(t, resolve(t, n)).kind.id = 0

\* the tree holds an alias of a node and an alias with the placeholder target
AliasAndPlaceholder ==
  \E n, m \in Aliases(T) :
    /\ Part(T, n).kind.id > 0
    /\ resolve(T, n) < n
    /\ Part(T, m).kind.id = 0


\* the ids len(t), ..., len(after) - 1 of the nodes a step has added
AddedNodes(t, after) == [k \in 1..(len(after) - len(t)) |-> len(t) + k - 1]

\* a step that dispatches an Import task leaves the path stacks, the other
\* trees and the current node alone; what it adds to the tree of the task are
\* alias nodes, children of the node path_ref_id, and no other node changes
ImportFrameStep ==
  (/\ queue # <<>>
   /\ Head(queue).kind = "Import"
   /\ dispatched' = Append(dispatched, Head(queue).seq)) =>
    LET task == Head(queue)
        h == task.items.tree
        t == trees[h]
        after == trees'[h]
    IN /\ paths' = paths
       /\ guards' = guards
       /\ Len(trees') = Len(trees)
       /\ \A g \in 1..Len(trees) : g # h => trees'[g] = trees[g]
       /\ after.current = t.current
       /\ len(after) >= len(t)
       /\ \A i \in len(t)..(len(after) - 1) :
            /\ Part(after, i).kind.tag = "Use"
            /\ Part(after, i).parent = task.path_ref_id
       /\ \A i \in 0..(len(t) - 1) :
            Part(after, i) =
              IF i = task.path_ref_id
              THEN [Part(t, i) EXCEPT !.children = @ \o AddedNodes(t, after)]
              ELSE Part(t, i)

\* C39: processing an Import task, wildcard or not, succeeding or failing,
\* never moves the scope stack: the current pointer of the tree and the path
\* stack are the same after the task as before it; the task only appends
\* alias nodes as children of the importer node that path_ref_id names.
ImportKeepsScopeStack == [][ImportFrameStep]_vars

\* an import has appended an alias under an importer that is not the current
\* node, and another import has failed
AliasUnderImporter ==
  /\ errors # <<>>
  /\ \E n \in Aliases(T) : Part(T, n).parent # T.current


\* the target of the query names an alias of a node
TargetIsAlias ==
  /\ VisibilityAnswered
  /\ Part(T, find(T, answer.other).idx).kind.tag = "Use"
  /\ Part(T, find(T, answer.other).idx).kind.id # 0

\* the path under which the node the target resolves to was declared, spelled
\* with the name of the root when the target of the query is
OriginalPath ==
  IF Head(answer.other) = "" THEN qualified_path(T, TargetNode)
  ELSE SelectSeq(qualified_path(T, TargetNode), NonEmpty)

\* C40: when the target path of is_visible_to names an alias the answer is
\* decided only by the visibility tag of the node the alias resolves to, not
\* by the alias node's own tag, so an item is exactly as visible through the
\* alias path as through its original path.
AliasAsVisibleAsOriginal ==
  TargetIsAlias =>
    answer.res = is_visible_to(T, answer.self, OriginalPath)

====
